---- MODULE Spec2Model ----
(***************************************************************************)
(* Model of the Database query engine of typescript-exercises:             *)
(*   - src/unnamed/part_001          (Database with find(query, options))  *)
(*   - src/exercises/exercise-13/database.ts  (Database with find(query))  *)
(*   - src/unnamed/part_000          (Database with the first find(query)) *)
(*                                                                         *)
(* JavaScript values are modelled as records of one shape                  *)
(*   [kind, n, e, s, items, ref]                                           *)
(* kind = "num" (the number n * 10^e, n and e integers, e = 0 for an       *)
(* integer; an infinity is its sign n with e = InfinityExponent), "str"    *)
(* (s is the sequence of characters: printable ASCII, tab, line feed, form *)
(* feed, carriage return), "arr" (items is the sequence of elements),      *)
(* "bool" (n is 1 for true, 0 for false), "null", "object" (a plain object *)
(* that is the value of a property or an element: items is the sequence    *)
(* of its properties), "undef" (undefined), "fn" (a built-in function, s   *)
(* is its name) and "obj" (the object Object.prototype).                   *)
(* An array or a plain object is an object: ref is its identity, the place *)
(* JSON.parse made it at (the number of the record among those of the      *)
(* load, the number of the property, the indices inside outer arrays and   *)
(* objects), and <<>> for one written in a query, which is an object of    *)
(* its own and in no record.  Two of them are the same object iff they are *)
(* equal with their ref.                                                   *)
(* A plain object - a database record, a query document, a sub-query, the  *)
(* sort option - is the sequence of its own properties [key, value] in     *)
(* the order of Object.entries; its names are not written as integers.     *)
(* A record that JSON.parse did not read as an object (the text of the     *)
(* line is that of a number, a string, an array, true, false or null) is   *)
(* that value; a query, a sort or a projection over such a record is       *)
(* outside the model.                                                      *)
(* In a query document the value of an entry has the shape its key makes   *)
(* the code read: a string value for $text, a sequence of documents for a  *)
(* key that setOperations has or inherits, a sub-query otherwise.          *)
(* A thrown exception is an outcome with ok = FALSE and the error's        *)
(* message (or class for built-in errors).                                 *)
(***************************************************************************)
EXTENDS Integers, Sequences, FiniteSets, Bags, TLC

(***************************************************************************)
(* Bounds of the model.                                                    *)
(***************************************************************************)
MaxRecords == 3
MaxNum == 2
MaxStrLen == 3
MaxFileLen == 5

\* the most calls in flight on the one object, and the most calls of
\* loadDatabase made by the program itself among them
MaxCalls == 3

MaxLoads == 1

(***************************************************************************)
(* Sequence helpers (Array.prototype.filter/map/includes).                 *)
(***************************************************************************)
Range(seq) == {seq[i] : i \in 1..Len(seq)}

\* Array.prototype.includes: a string or a number is found by its value, an
\* array by its identity (its ref, which is part of the value)
Includes(seq, x) == \E i \in 1..Len(seq) : seq[i] = x

Reverse(seq) == [i \in 1..Len(seq) |-> seq[Len(seq) + 1 - i]]

(***************************************************************************)
(* Values and plain objects.                                               *)
(***************************************************************************)
Undefined ==
    [kind |-> "undef", n |-> 0, e |-> 0, s |-> <<>>, items |-> <<>>, ref |-> <<>>]

Num(i) == [Undefined EXCEPT !.kind = "num", !.n = i]

Str(cs) == [Undefined EXCEPT !.kind = "str", !.s = cs]

Null == [Undefined EXCEPT !.kind = "null"]

Bool(b) == [Undefined EXCEPT !.kind = "bool", !.n = IF b THEN 1 ELSE 0]

\* the exponent that marks an infinity: 10^309 is no finite number
InfinityExponent == 309

\* the number m * 10^e, written the one way of Normal
Decimal(m, e) == [Undefined EXCEPT !.kind = "num", !.n = m, !.e = e]

\* a plain object that is a value, as a query or a file writes it: no
\* object yet
Object(entries) == [Undefined EXCEPT !.kind = "object", !.items = entries]

\* an array as a query or a file writes it: no object yet
Arr(vs) == [Undefined EXCEPT !.kind = "arr", !.items = vs]

\* a built-in function, s being its name
NativeFn(name) == [Undefined EXCEPT !.kind = "fn", !.s = name]

\* the object Object.prototype
ObjectPrototype == [Undefined EXCEPT !.kind = "obj"]

Entry(k, v) == [key |-> k, value |-> v]

\* the value as JSON.parse makes it at `place`: every array and every
\* object of it is a new object
RECURSIVE Fresh(_, _)
Fresh(v, place) ==
    IF v.kind = "arr"
    THEN [v EXCEPT !.ref = place,
                   !.items = [i \in 1..Len(v.items) |-> Fresh(v.items[i], Append(place, i))]]
    ELSE IF v.kind = "object"
    THEN [v EXCEPT !.ref = place,
                   !.items = [i \in 1..Len(v.items) |->
                                 Entry(v.items[i].key,
                                       Fresh(v.items[i].value, Append(place, i)))]]
    ELSE v

\* the properties every plain object inherits from Object.prototype
ObjectPrototypeProperties ==
    <<
      Entry("constructor",
            NativeFn(<<"O", "b", "j", "e", "c", "t">>)),
      Entry("__defineGetter__",
            NativeFn(<<"_", "_", "d", "e", "f", "i", "n", "e", "G", "e", "t", "t", "e", "r", "_", "_">>)),
      Entry("__defineSetter__",
            NativeFn(<<"_", "_", "d", "e", "f", "i", "n", "e", "S", "e", "t", "t", "e", "r", "_", "_">>)),
      Entry("hasOwnProperty",
            NativeFn(<<"h", "a", "s", "O", "w", "n", "P", "r", "o", "p", "e", "r", "t", "y">>)),
      Entry("__lookupGetter__",
            NativeFn(<<"_", "_", "l", "o", "o", "k", "u", "p", "G", "e", "t", "t", "e", "r", "_", "_">>)),
      Entry("__lookupSetter__",
            NativeFn(<<"_", "_", "l", "o", "o", "k", "u", "p", "S", "e", "t", "t", "e", "r", "_", "_">>)),
      Entry("isPrototypeOf",
            NativeFn(<<"i", "s", "P", "r", "o", "t", "o", "t", "y", "p", "e", "O", "f">>)),
      Entry("propertyIsEnumerable",
            NativeFn(<<"p", "r", "o", "p", "e", "r", "t", "y", "I", "s", "E", "n", "u", "m", "e", "r", "a", "b", "l", "e">>)),
      Entry("toString",
            NativeFn(<<"t", "o", "S", "t", "r", "i", "n", "g">>)),
      Entry("valueOf",
            NativeFn(<<"v", "a", "l", "u", "e", "O", "f">>)),
      Entry("toLocaleString",
            NativeFn(<<"t", "o", "L", "o", "c", "a", "l", "e", "S", "t", "r", "i", "n", "g">>)),
      Entry("__proto__", ObjectPrototype)>>

\* the names of ObjectPrototypeProperties
ObjectPrototypeKeys ==
    {"constructor", "__defineGetter__", "__defineSetter__", "hasOwnProperty",
     "__lookupGetter__", "__lookupSetter__", "isPrototypeOf",
     "propertyIsEnumerable", "toString", "valueOf", "toLocaleString", "__proto__"}

\* the names of the own properties of a plain object
OwnKeys(obj) == {obj[i].key : i \in 1..Len(obj)}

OwnValue(obj, key) == obj[CHOOSE i \in 1..Len(obj) : obj[i].key = key].value

\* JS `key in obj` for a plain object: own properties and inherited ones
HasProperty(obj, key) == key \in OwnKeys(obj) \/ key \in ObjectPrototypeKeys

\* JS `obj[key]` for a plain object
GetProperty(obj, key) ==
    IF key \in OwnKeys(obj) THEN OwnValue(obj, key)
    ELSE IF key \in ObjectPrototypeKeys THEN OwnValue(ObjectPrototypeProperties, key)
    ELSE Undefined

Ids(rows) == [i \in 1..Len(rows) |-> GetProperty(rows[i], "_id")]

(***************************************************************************)
(* Strings: sequences of the printable ASCII characters and of the tab,    *)
(* the line feed, the form feed and the carriage return.                   *)
(***************************************************************************)
\* the characters of code 32 to 95
AsciiLow ==
    <<" ", "!", "\"", "#", "$", "%", "&", "'", "(", ")", "*", "+", ",",
      "-", ".", "/", "0", "1", "2", "3", "4", "5", "6", "7", "8", "9", ":",
      ";", "<", "=", ">", "?", "@", "A", "B", "C", "D", "E", "F", "G", "H",
      "I", "J", "K", "L", "M", "N", "O", "P", "Q", "R", "S", "T", "U", "V",
      "W", "X", "Y", "Z", "[", "\\", "]", "^", "_">>

\* the characters of code 97 to 126 (the grave accent, 96, is left out)
AsciiHigh ==
    <<"a", "b", "c", "d", "e", "f", "g", "h", "i", "j", "k", "l", "m", "n",
      "o", "p", "q", "r", "s", "t", "u", "v", "w", "x", "y", "z", "{", "|",
      "}", "~">>

\* the position of c in seq, 0 when seq does not have it
IndexOf(seq, c) ==
    IF \E i \in 1..Len(seq) : seq[i] = c
    THEN CHOOSE i \in 1..Len(seq) : seq[i] = c
    ELSE 0

\* the tab, the line feed, the form feed and the carriage return, and the
\* codes they have
ControlChars == <<"\t", "\n", "\f", "\r">>

ControlCodes == <<9, 10, 12, 13>>

\* the code unit of a character
CharCode(c) ==
    IF IndexOf(AsciiHigh, c) > 0 THEN 96 + IndexOf(AsciiHigh, c)
    ELSE IF IndexOf(ControlChars, c) > 0 THEN ControlCodes[IndexOf(ControlChars, c)]
    ELSE 31 + IndexOf(AsciiLow, c)

\* the letters A to Z
UpperCase ==
    <<"A", "B", "C", "D", "E", "F", "G", "H", "I", "J", "K", "L", "M", "N",
      "O", "P", "Q", "R", "S", "T", "U", "V", "W", "X", "Y", "Z">>

\* the lower case of a letter A to Z, any other character itself
LowerChar(c) ==
    IF IndexOf(UpperCase, c) > 0 THEN AsciiHigh[IndexOf(UpperCase, c)] ELSE c

ToLowerCase(cs) == [i \in 1..Len(cs) |-> LowerChar(cs[i])]

\* String.prototype.split(sep) for a one-character separator: the pieces
\* between separators, empty pieces included; "" splits into [""].
RECURSIVE SplitFrom(_, _, _)
SplitFrom(cs, sep, cur) ==
    IF cs = <<>> THEN <<cur>>
    ELSE IF Head(cs) = sep THEN <<cur>> \o SplitFrom(Tail(cs), sep, <<>>)
    ELSE SplitFrom(Tail(cs), sep, Append(cur, Head(cs)))

Split(cs, sep) == SplitFrom(cs, sep, <<>>)

\* prepareText without the lowercasing
prepareText_NoLowerCase(text) == Split(text, " ")

prepareText(text) == Split(ToLowerCase(text), " ")

\* the string comparison of `<`: by code units, a prefix first
RECURSIVE StrLess(_, _)
StrLess(x, y) ==
    IF y = <<>> THEN FALSE
    ELSE IF x = <<>> THEN TRUE
    ELSE IF Head(x) = Head(y) THEN StrLess(Tail(x), Tail(y))
    ELSE CharCode(Head(x)) < CharCode(Head(y))

\* String.prototype.includes: t occurs in s
IsSubstring(t, s) ==
    \E i \in 0..(Len(s) - Len(t)) : SubSeq(s, i + 1, i + Len(t)) = t

(***************************************************************************)
(* JsToString: the conversion of a value to a string, as made by join, by  *)
(* String.prototype.includes and by the comparison of objects.             *)
(***************************************************************************)
Digits == <<"0", "1", "2", "3", "4", "5", "6", "7", "8", "9">>

RECURSIVE NumToString(_)
NumToString(i) ==
    IF i < 0 THEN <<"-">> \o NumToString(0 - i)
    ELSE IF i < 10 THEN <<Digits[i + 1]>>
    ELSE NumToString(i \div 10) \o <<Digits[(i % 10) + 1]>>

\* a natural number that is not zero without the zeros that end it
RECURSIVE Significand(_)
Significand(m) == IF m % 10 = 0 THEN Significand(m \div 10) ELSE m

Zeros(count) == [i \in 1..count |-> "0"]

\* Number::toString of a positive number of the digits `digits`, the point
\* after the first `point` of them (before them when point is not positive)
PositiveToString(digits, point) ==
    IF Len(digits) <= point /\ point <= 21
    THEN digits \o Zeros(point - Len(digits))
    ELSE IF 0 < point /\ point <= 21
    THEN SubSeq(digits, 1, point) \o <<".">> \o SubSeq(digits, point + 1, Len(digits))
    ELSE IF -6 < point /\ point <= 0
    THEN <<"0", ".">> \o Zeros(0 - point) \o digits
    ELSE <<Head(digits)>>
             \o (IF Len(digits) > 1 THEN <<".">> \o Tail(digits) ELSE <<>>)
             \o <<"e", IF point - 1 < 0 THEN "-" ELSE "+">>
             \o NumToString(IF point - 1 < 0 THEN 1 - point ELSE point - 1)

\* Number::toString of the number m * 10^e
NumberToString(m, e) ==
    IF m = 0 THEN <<"0">>
    ELSE (IF m < 0 THEN <<"-">> ELSE <<>>)
             \o (IF e = InfinityExponent
                 THEN <<"I", "n", "f", "i", "n", "i", "t", "y">>
                 ELSE PositiveToString(
                          NumToString(Significand(IF m < 0 THEN 0 - m ELSE m)),
                          Len(NumToString(IF m < 0 THEN 0 - m ELSE m)) + e))

RECURSIVE JsToString(_)
RECURSIVE Join(_, _)

\* the string Array.prototype.join makes of one element: empty for
\* undefined and for null, its string otherwise
ElementToString(v) == IF v.kind \in {"undef", "null"} THEN <<>> ELSE JsToString(v)

Join(values, sep) ==
    IF values = <<>> THEN <<>>
    ELSE IF Len(values) = 1 THEN ElementToString(values[1])
    ELSE ElementToString(values[1]) \o <<sep>> \o Join(Tail(values), sep)

JsToString(v) ==
    CASE v.kind = "num" -> NumberToString(v.n, v.e)
      [] v.kind = "str" -> v.s
      [] v.kind = "undef" -> <<"u", "n", "d", "e", "f", "i", "n", "e", "d">>
      [] v.kind = "null" -> <<"n", "u", "l", "l">>
      [] v.kind = "bool" ->
            IF v.n = 1 THEN <<"t", "r", "u", "e">> ELSE <<"f", "a", "l", "s", "e">>
      [] v.kind = "arr" -> Join(v.items, ",")
      [] v.kind = "fn" ->
            <<"f", "u", "n", "c", "t", "i", "o", "n", " ">> \o v.s \o
            <<"(", ")", " ", "{", " ", "[", "n", "a", "t", "i", "v", "e", " ", "c", "o", "d", "e", "]", " ", "}">>
      [] v.kind \in {"obj", "object"} ->
            <<"[", "o", "b", "j", "e", "c", "t", " ", "O", "b", "j", "e", "c", "t", "]">>

\* the kinds of the values that are objects
ObjectKinds == {"arr", "fn", "obj", "object"}

\* ToPrimitive: an array, a function or an object becomes its string
ToPrimitive(v) == IF v.kind \in ObjectKinds THEN Str(JsToString(v)) ELSE v

(***************************************************************************)
(* ToNumber.  A number is NaN, an infinity (m is its sign) or m * 10^e     *)
(* with integers m and e; an integer that fits nine digits has e = 0.      *)
(* Literals of more than nine significant digits are outside the model.    *)
(***************************************************************************)
NaN == [nan |-> TRUE, inf |-> FALSE, m |-> 0, e |-> 0]

Finite(m, e) == [nan |-> FALSE, inf |-> FALSE, m |-> m, e |-> e]

Infinite(sign) == [nan |-> FALSE, inf |-> TRUE, m |-> sign, e |-> 0]

Abs(i) == IF i < 0 THEN 0 - i ELSE i

Sign(i) == IF i < 0 THEN -1 ELSE IF i > 0 THEN 1 ELSE 0

RECURSIVE Pow10(_)
Pow10(k) == IF k <= 0 THEN 1 ELSE 10 * Pow10(k - 1)

\* the number of decimal digits of a natural number
RECURSIVE DigitCount(_)
DigitCount(i) == IF i < 10 THEN 1 ELSE 1 + DigitCount(i \div 10)

\* the one way of writing m * 10^e: no power of ten left in e that m can
\* hold, no factor ten left in m that a negative e can take
RECURSIVE Normal(_, _)
Normal(m, e) ==
    IF m = 0 THEN Finite(0, 0)
    ELSE IF e > 0 /\ Abs(m) < 100000000 THEN Normal(m * 10, e - 1)
    ELSE IF e < 0 /\ Abs(m) % 10 = 0 THEN Normal(Sign(m) * (Abs(m) \div 10), e + 1)
    ELSE Finite(m, e)

\* the leading nine digits of a natural number m of `digits` digits
Lead9(m, digits) ==
    IF digits > 9 THEN m \div Pow10(digits - 9) ELSE m * Pow10(9 - digits)

\* m * 10^e, m having `digits` digits and the leading digits `lead`, as a
\* double: an infinity from 1.7976931348623158e308 on, zero up to
\* 2.4703282292062327e-324, itself from 1e-313 on (the doubles between,
\* which do not have nine digits, are outside the model)
Rounded(m, e, magnitude, lead) ==
    CASE magnitude > 309 \/ (magnitude = 309 /\ lead >= 179769314) ->
            Infinite(Sign(m))
      [] magnitude < -323 \/ (magnitude = -323 /\ lead <= 247032822) ->
            Finite(0, 0)
      [] magnitude \in -312..309 /\ ~(magnitude = 309 /\ lead >= 179769314) ->
            Normal(m, e)

ToDouble(m, e) ==
    IF m = 0 THEN Finite(0, 0)
    ELSE Rounded(m, e, DigitCount(Abs(m)) + e, Lead9(Abs(m), DigitCount(Abs(m))))

HexDigits ==
    <<"0", "1", "2", "3", "4", "5", "6", "7", "8", "9", "a", "b", "c", "d", "e", "f">>

\* the value of a digit, -1 for any other character
DigitValue(c) == IndexOf(HexDigits, LowerChar(c)) - 1

IsDigitOf(c, base) == DigitValue(c) \in 0..(base - 1)

AllDigits(cs, base) == cs # <<>> /\ \A i \in 1..Len(cs) : IsDigitOf(cs[i], base)

RECURSIVE DigitsValue(_, _, _)
DigitsValue(cs, base, acc) ==
    IF cs = <<>> THEN acc
    ELSE DigitsValue(Tail(cs), base, acc * base + DigitValue(Head(cs)))

\* the white space of a string that is read as a number
StrWhiteSpace == {" ", "\t", "\n", "\f", "\r"}

RECURSIVE TrimStart(_)
TrimStart(cs) ==
    IF cs # <<>> /\ Head(cs) \in StrWhiteSpace THEN TrimStart(Tail(cs)) ELSE cs

\* the string without the white space at its ends
Trim(cs) == Reverse(TrimStart(Reverse(TrimStart(cs))))

\* the first position of cs with a character of chars, 0 when it has none
FirstIndex(cs, chars) ==
    IF \E i \in 1..Len(cs) : cs[i] \in chars
    THEN CHOOSE i \in 1..Len(cs) :
             cs[i] \in chars /\ \A j \in 1..(i - 1) : cs[j] \notin chars
    ELSE 0

RECURSIVE TrailingZeros(_)
TrailingZeros(cs) ==
    IF cs # <<>> /\ cs[Len(cs)] = "0" THEN 1 + TrailingZeros(SubSeq(cs, 1, Len(cs) - 1))
    ELSE 0

\* the text before position i of cs, all of cs when i is 0
Before(cs, i) == IF i = 0 THEN cs ELSE SubSeq(cs, 1, i - 1)

\* the text after position i of cs, none when i is 0
After(cs, i) == IF i = 0 THEN <<>> ELSE SubSeq(cs, i + 1, Len(cs))

\* the digits `all`, the last fracLen of them after the point and the last
\* `zeros` of them zeros, times ten to the power expValue
DecimalValue(all, fracLen, zeros, expValue, sign) ==
    IF zeros = Len(all) THEN Finite(0, 0)
    ELSE ToDouble(sign * DigitsValue(SubSeq(all, 1, Len(all) - zeros), 10, 0),
                  expValue - fracLen + zeros)

\* the digits of the exponent part of a literal, after its optional sign
ExponentDigits(exponent) ==
    IF exponent # <<>> /\ Head(exponent) \in {"+", "-"} THEN Tail(exponent) ELSE exponent

\* the value of the exponent part of a literal, its sign included
ExponentValue(exponent) ==
    (IF exponent # <<>> /\ Head(exponent) = "-" THEN -1 ELSE 1)
        * DigitsValue(ExponentDigits(exponent), 10, 0)

\* the exponent part of a literal is digits with an optional sign
IsExponent(exponent) == AllDigits(ExponentDigits(exponent), 10)

\* a literal of the digits int before the point, the digits frac after it
\* and, when hasExponent, the exponent part
DecimalLiteral(int, frac, hasExponent, exponent, sign) ==
    IF AllDigits(int \o frac, 10) /\ (~hasExponent \/ IsExponent(exponent))
    THEN DecimalValue(int \o frac, Len(frac), TrailingZeros(int \o frac),
                      ExponentValue(exponent), sign)
    ELSE NaN

\* a literal of a mantissa and, when hasExponent, an exponent part
Mantissa(mantissa, point, hasExponent, exponent, sign) ==
    DecimalLiteral(Before(mantissa, point), After(mantissa, point),
                   hasExponent, exponent, sign)

\* a literal with its exponent marker at position x (0: none)
Exponent(cs, x, sign) ==
    Mantissa(Before(cs, x), FirstIndex(Before(cs, x), {"."}), x # 0, After(cs, x), sign)

\* an unsigned decimal literal: Infinity, or digits with an optional
\* fraction and an optional exponent
UnsignedDecimal(cs, sign) ==
    IF cs = <<"I", "n", "f", "i", "n", "i", "t", "y">>
    THEN Infinite(sign)
    ELSE Exponent(cs, FirstIndex(cs, {"e", "E"}), sign)

\* a binary, octal or hexadecimal literal after its prefix
NonDecimal(cs, base) == IF AllDigits(cs, base) THEN Normal(DigitsValue(cs, base, 0), 0) ELSE NaN

\* the base a literal's prefix 0b, 0o or 0x names, 10 without a prefix
BaseOf(t) ==
    IF Len(t) > 2 /\ t[1] = "0"
    THEN CASE t[2] \in {"b", "B"} -> 2
           [] t[2] \in {"o", "O"} -> 8
           [] t[2] \in {"x", "X"} -> 16
           [] OTHER -> 10
    ELSE 10

\* a literal with an optional sign
SignedDecimal(t) ==
    UnsignedDecimal(IF Head(t) \in {"+", "-"} THEN Tail(t) ELSE t,
                    IF Head(t) = "-" THEN -1 ELSE 1)

\* a literal without white space at its ends
StrNumericLiteral(t, base) ==
    IF t = <<>> THEN Finite(0, 0)
    ELSE IF base # 10 THEN NonDecimal(SubSeq(t, 3, Len(t)), base)
    ELSE SignedDecimal(t)

\* ToNumber of a string
StringToNumber(cs) == StrNumericLiteral(Trim(cs), BaseOf(Trim(cs)))

\* ToNumber of a value; an array, a function or an object by its string
ToNumber(v) ==
    CASE v.kind = "num" ->
            IF v.e = InfinityExponent THEN Infinite(v.n) ELSE Finite(v.n, v.e)
      [] v.kind = "undef" -> NaN
      [] v.kind = "null" -> Finite(0, 0)
      [] v.kind = "bool" -> Finite(v.n, 0)
      [] OTHER -> StringToNumber(ToPrimitive(v).s)

\* m1 * 10^e1 < m2 * 10^e2 for positive m1 of d1 digits and m2 of d2 digits
PositiveLess(m1, e1, d1, m2, e2, d2) ==
    IF d1 + e1 # d2 + e2 THEN d1 + e1 < d2 + e2
    ELSE IF d1 >= d2 THEN m1 < m2 * Pow10(d1 - d2)
    ELSE m1 * Pow10(d2 - d1) < m2

\* |x| < |y| for finite numbers that are not zero
MagnitudeLess(x, y) ==
    PositiveLess(Abs(x.m), x.e, DigitCount(Abs(x.m)), Abs(y.m), y.e, DigitCount(Abs(y.m)))

\* x < y for numbers; false when one of them is NaN
NumLess(x, y) ==
    IF x.nan \/ y.nan THEN FALSE
    ELSE IF x.inf \/ y.inf
    THEN IF x.inf /\ y.inf THEN x.m < y.m
         ELSE IF x.inf THEN x.m < 0
         ELSE y.m > 0
    ELSE IF Sign(x.m) # Sign(y.m) THEN Sign(x.m) < Sign(y.m)
    ELSE IF x.m = 0 THEN FALSE
    ELSE IF x.m > 0 THEN MagnitudeLess(x, y)
    ELSE MagnitudeLess(y, x)

(***************************************************************************)
(* The operator registry.                                                  *)
(***************************************************************************)
\* pa < pb for two primitive values: two strings by code units, anything
\* else as numbers, false when one of them is NaN
PrimitiveLess(pa, pb) ==
    IF pa.kind = "str" /\ pb.kind = "str" THEN StrLess(pa.s, pb.s)
    ELSE NumLess(ToNumber(pa), ToNumber(pb))

\* JS `a < b`, each operand made a primitive value first
JsLess(a, b) ==
    IF a.kind = "num" /\ b.kind = "num" /\ a.e = 0 /\ b.e = 0 THEN a.n < b.n
    ELSE PrimitiveLess(ToPrimitive(a), ToPrimitive(b))

\* '$eq': (a, b) => a === b; an array or a plain object is equal to the
\* same object only (two arrays written in queries are two objects), a
\* built-in function and Object.prototype are the same as themselves
OpEq(a, b) == a = b /\ (a.kind \in {"arr", "object"} => a.ref # <<>>)

\* '$gt': (a, b) => a > b
OpGt(a, b) == JsLess(b, a)

\* '$lt': (a, b) => a < b
OpLt(a, b) == JsLess(a, b)

\* '$in': (v, arr) => arr.includes(v), of Array.prototype or, when arr is a
\* string, of String.prototype
OpIn(v, arr) ==
    IF arr.kind = "str" THEN IsSubstring(JsToString(v), arr.s)
    ELSE \E i \in 1..Len(arr.items) : OpEq(arr.items[i], v)

queryOperations == {"$eq", "$gt", "$lt"}

arrayOperations == {"$in"}

simpleOperations == queryOperations \cup arrayOperations

setOperations == {"$and", "$or"}

\* JS `name in table` for one of the operator tables (plain objects)
InTable(name, table) == name \in table \/ name \in ObjectPrototypeKeys

(***************************************************************************)
(* Outcomes of a call: a returned array or a thrown error.                 *)
(***************************************************************************)
Ok(rows) == [ok |-> TRUE, rows |-> rows, err |-> ""]

Err(msg) == [ok |-> FALSE, rows |-> <<>>, err |-> msg]

(***************************************************************************)
(* Plain objects of the query language.                                    *)
(***************************************************************************)
\* Object.keys(obj)[0]; `undefined` is written "undefined", the property
\* name JavaScript converts it to
FirstKey(obj) == IF obj = <<>> THEN "undefined" ELSE obj[1].key

\* obj[name] for an ordered object holding values
Lookup(obj, name) == GetProperty(obj, name)

(***************************************************************************)
(* Result combinators.                                                     *)
(***************************************************************************)
\* uniteResults without the test of the ids already present
uniteResults_NoDedup(finalResult, queryResult) == finalResult \o queryResult

uniteResults(finalResult, queryResult) ==
    LET currentIds == Ids(finalResult)
    IN finalResult \o
       SelectSeq(queryResult, LAMBDA entry : ~Includes(currentIds, GetProperty(entry, "_id")))

intersectResults(finalResult, queryResult) ==
    LET currentIds == Ids(finalResult)
        commonIds == Ids(SelectSeq(queryResult,
                            LAMBDA entry : Includes(currentIds, GetProperty(entry, "_id"))))
    IN IF Len(finalResult) # 0
       THEN SelectSeq(finalResult, LAMBDA entry : Includes(commonIds, GetProperty(entry, "_id")))
       ELSE queryResult

(***************************************************************************)
(* handleSimpleQuery: one field filter over this.records.                  *)
(***************************************************************************)
\* filterFn(fieldValue, valueToCompare) throws a TypeError, filterFn being
\* simpleOperations[operator] called without a receiver: it is not a
\* function (undefined, or Object.prototype for __proto__), arr.includes is
\* not one, or it is a method of Object.prototype that needs its receiver
\* (isPrototypeOf answers false for a primitive before it needs it)
OperationThrows(operator, fieldValue, valueToCompare) ==
    CASE operator \in queryOperations -> FALSE
      [] operator = "$in" -> valueToCompare.kind \notin {"arr", "str"}
      [] operator \in {"constructor", "toString"} -> FALSE
      [] operator = "isPrototypeOf" -> fieldValue.kind \in ObjectKinds
      [] OTHER -> TRUE

\* filterFn(fieldValue, valueToCompare) as a truth value, when it does not
\* throw: Object(..) gives an object and Object.prototype.toString a
\* non-empty string, both truthy
ApplyOperation(operator, fieldValue, valueToCompare) ==
    CASE operator = "$eq" -> OpEq(fieldValue, valueToCompare)
      [] operator = "$gt" -> OpGt(fieldValue, valueToCompare)
      [] operator = "$lt" -> OpLt(fieldValue, valueToCompare)
      [] operator = "$in" -> OpIn(fieldValue, valueToCompare)
      [] operator \in {"constructor", "toString"} -> TRUE
      [] OTHER -> FALSE

\* this.records.filter(entry => filterFn(entry[field], valueToCompare)),
\* after the test of valueToCompare
FilterRecords(recs, operator, field, valueToCompare) ==
    IF valueToCompare = Undefined THEN Err("something went wrong")
    ELSE IF \E i \in 1..Len(recs) :
                OperationThrows(operator, GetProperty(recs[i], field), valueToCompare)
    THEN Err("TypeError")
    ELSE Ok(SelectSeq(recs, LAMBDA entry :
                ApplyOperation(operator, GetProperty(entry, field), valueToCompare)))

\* the filter of the records by simpleOperations[operator] and the value
\* subQuery[operator]
handleSimpleQuery(recs, operator, subQuery, field) ==
    FilterRecords(recs, operator, field, Lookup(subQuery, operator))

(***************************************************************************)
(* handleSetQuery: fold of the field filters of the inner documents.       *)
(***************************************************************************)
\* the entries visited by queryArray.forEach(Object.entries(..).forEach)
RECURSIVE FlattenEntries(_)
FlattenEntries(queryArray) ==
    IF queryArray = <<>> THEN <<>>
    ELSE Head(queryArray) \o FlattenEntries(Tail(queryArray))

RECURSIVE SetFold(_, _, _, _)

\* the switch on setOperator for one filter result, and the entries left
SetStep(recs, setOperator, rest, result, setQueryResult) ==
    IF ~setQueryResult.ok THEN setQueryResult
    ELSE IF setOperator = "$or"
    THEN SetFold(recs, setOperator, rest, uniteResults(result, setQueryResult.rows))
    ELSE IF setOperator = "$and"
    THEN SetFold(recs, setOperator, rest, intersectResults(result, setQueryResult.rows))
    ELSE Err("unhandled set operator")

\* the forEach over the entries, result being the accumulator
SetFold(recs, setOperator, entries, result) ==
    IF entries = <<>> THEN Ok(result)
    ELSE SetStep(recs, setOperator, Tail(entries), result,
                 handleSimpleQuery(recs, FirstKey(Head(entries).value),
                                   Head(entries).value, Head(entries).key))

handleSetQuery(recs, setOperator, queryArray) ==
    SetFold(recs, setOperator, FlattenEntries(queryArray), <<>>)

(***************************************************************************)
(* handleTextQuery.                                                        *)
(***************************************************************************)
\* Object.entries(entry), as the sequence of the entry's own keys
ObjectKeys(entry) == [i \in 1..Len(entry) |-> entry[i].key]

handleTextQuery(recs, fullTextSearchFieldNames, searchQuery) ==
    IF searchQuery.kind # "str" THEN Err("TypeError")
    ELSE
    LET preparedQuery == prepareText(searchQuery.s)
        fieldValues(entry) ==
            LET keys == SelectSeq(ObjectKeys(entry),
                            LAMBDA k : Includes(fullTextSearchFieldNames, k))
            IN Join([i \in 1..Len(keys) |-> OwnValue(entry, keys[i])], " ")
        fieldContent(entry) == prepareText(fieldValues(entry))
    IN Ok(SelectSeq(recs, LAMBDA entry :
              \E i \in 1..Len(fieldContent(entry)) :
                  Includes(preparedQuery, fieldContent(entry)[i])))

(***************************************************************************)
(* handleQuery (part_001) and the same dispatch inlined in the find of     *)
(* exercise-13/database.ts.                                                *)
(***************************************************************************)
RECURSIVE FieldFold(_, _, _)

\* the intersection with one filter result, and the elements left
FieldStep(recs, rest, result, filtered) ==
    IF ~filtered.ok THEN filtered
    ELSE FieldFold(recs, rest, intersectResults(result, filtered.rows))

\* the for loop over the elements of the query, result being the accumulator
FieldFold(recs, queryElements, result) ==
    IF queryElements = <<>> THEN Ok(result)
    ELSE IF \/ InTable(FirstKey(Head(queryElements).value), queryOperations)
            \/ InTable(FirstKey(Head(queryElements).value), arrayOperations)
    THEN FieldStep(recs, Tail(queryElements), result,
                   handleSimpleQuery(recs, FirstKey(Head(queryElements).value),
                                     Head(queryElements).value, Head(queryElements).key))
    ELSE Err("unhandled query operator")

handleQuery(recs, fullTextSearchFieldNames, queryElements) ==
    LET key == queryElements[1].key
        value == queryElements[1].value
    IN IF key = "$text"
       THEN handleTextQuery(recs, fullTextSearchFieldNames, value)
       ELSE IF InTable(key, setOperations)
       THEN handleSetQuery(recs, key, value)
       ELSE IF HasProperty(recs[1], key)
       THEN FieldFold(recs, queryElements, <<>>)
       ELSE Err("unhandled query format")

(***************************************************************************)
(* Array.prototype.sort with the comparator of find.  The engine sorts an  *)
(* array of fewer than 64 elements by finding the run that starts the      *)
(* array (reversing it when it is strictly descending) and inserting the   *)
(* other elements by binary insertion; with a consistent comparator this   *)
(* is any stable sort, with an inconsistent one (values that compare       *)
(* neither greater nor less, such as undefined) it is this order.          *)
(***************************************************************************)
\* the value of the comparator for the two field values
Order(direction, valueA, valueB) ==
    IF OpGt(valueA, valueB) THEN direction
    ELSE IF OpLt(valueA, valueB) THEN (-1) * direction
    ELSE 0

\* the comparator (a, b) => ... of find
Compare(field, direction, a, b) ==
    Order(direction, GetProperty(a, field), GetProperty(b, field))

RECURSIVE RunEnd(_, _, _, _, _)
RunEnd(arr, field, direction, isDescending, idx) ==
    IF idx > Len(arr) THEN idx - 1
    ELSE IF isDescending = (Compare(field, direction, arr[idx], arr[idx - 1]) >= 0)
    THEN idx - 1
    ELSE RunEnd(arr, field, direction, isDescending, idx + 1)

\* the run of runLength elements that starts arr, reversed when descending
MakeRun(arr, isDescending, runLength) ==
    [run |-> runLength,
     arr |-> IF isDescending
             THEN Reverse(SubSeq(arr, 1, runLength)) \o SubSeq(arr, runLength + 1, Len(arr))
             ELSE arr]

\* the first run of arr, strictly descending or not
RunFrom(arr, field, direction, isDescending) ==
    MakeRun(arr, isDescending, RunEnd(arr, field, direction, isDescending, 3))

\* the length of the run that starts arr, and arr with that run ascending
CountAndMakeRun(arr, field, direction) ==
    RunFrom(arr, field, direction, Compare(field, direction, arr[2], arr[1]) < 0)

\* left and right count the elements before the position (0-based indices)
RECURSIVE InsertionPoint(_, _, _, _, _, _)
InsertionPoint(arr, field, direction, pivot, left, right) ==
    IF left >= right THEN left
    ELSE LET mid == left + ((right - left) \div 2)
             order == Compare(field, direction, pivot, arr[mid + 1])
         IN IF order < 0
            THEN InsertionPoint(arr, field, direction, pivot, left, mid)
            ELSE InsertionPoint(arr, field, direction, pivot, mid + 1, right)

RECURSIVE BinaryInsertionSort(_, _, _, _)

\* arr with the element after the first `start` ones moved behind the
\* first `left` ones
Insert(arr, left, start) ==
    SubSeq(arr, 1, left) \o <<arr[start + 1]>> \o SubSeq(arr, left + 1, start)
        \o SubSeq(arr, start + 2, Len(arr))

\* the insertion of the elements that follow the first `start` ones
BinaryInsertionSort(arr, field, direction, start) ==
    IF start >= Len(arr) THEN arr
    ELSE BinaryInsertionSort(
             Insert(arr, InsertionPoint(arr, field, direction, arr[start + 1], 0, start),
                    start),
             field, direction, start + 1)

\* the binary insertion sort that follows the first run r
SortFromRun(r, field, direction) == BinaryInsertionSort(r.arr, field, direction, r.run)

\* result.sort((a, b) => ...) for one entry [field, direction] of the option
ArraySort(arr, field, direction) ==
    IF Len(arr) < 2 THEN arr
    ELSE SortFromRun(CountAndMakeRun(arr, field, direction), field, direction)

\* for (const elem of Object.entries(options.sort)) result.sort(...)
RECURSIVE SortPasses(_, _)
SortPasses(result, sortEntries) ==
    IF sortEntries = <<>> THEN result
    ELSE SortPasses(ArraySort(result, Head(sortEntries).key, Head(sortEntries).value),
                    Tail(sortEntries))

(***************************************************************************)
(* getProjection.                                                          *)
(***************************************************************************)
\* keys.map(..).reduce(..) has no initial value: it throws on no keys
ProjectionThrows(keys) == keys = <<>>

\* {...res, ...obj}: a property res has keeps its place and takes the value
\* of obj, a property it has not comes after the others
RECURSIVE Spread(_, _)
Spread(res, obj) ==
    IF obj = <<>> THEN res
    ELSE Spread(IF Head(obj).key \in OwnKeys(res)
                THEN [i \in 1..Len(res) |->
                         IF res[i].key = Head(obj).key THEN Head(obj) ELSE res[i]]
                ELSE Append(res, Head(obj)),
                Tail(obj))

\* pickedValues.reduce(..) from the first object on
RECURSIVE SpreadAll(_, _)
SpreadAll(res, pickedValues) ==
    IF pickedValues = <<>> THEN res
    ELSE SpreadAll(Spread(res, Head(pickedValues)), Tail(pickedValues))

getProjection(row, keys) ==
    LET pickedValues == [i \in 1..Len(keys) |->
                            IF HasProperty(row, keys[i])
                            THEN <<Entry(keys[i], GetProperty(row, keys[i]))>>
                            ELSE <<>>]
    IN SpreadAll(Head(pickedValues), Tail(pickedValues))

(***************************************************************************)
(* The options of find: `sort` and `projection` may each be undefined.     *)
(***************************************************************************)
NoOptions == [hasSort |-> FALSE, sort |-> <<>>, hasProjection |-> FALSE, projection |-> <<>>]

SortBy(sortEntries) == [NoOptions EXCEPT !.hasSort = TRUE, !.sort = sortEntries]

Project(keys) == [NoOptions EXCEPT !.hasProjection = TRUE, !.projection = keys]

(***************************************************************************)
(* find of part_001, after `await this.loadDatabase()`.  The value is the  *)
(* outcome of the call and this.records after it: the empty query returns  *)
(* this.records itself, which result.sort then sorts in place.             *)
(***************************************************************************)
\* the value returned: the projections of the sorted rows, when asked for
Projected(sorted, opts) ==
    IF opts.hasProjection
    THEN IF sorted # <<>> /\ ProjectionThrows(opts.projection)
         THEN Err("TypeError")
         ELSE Ok([i \in 1..Len(sorted) |-> getProjection(sorted[i], opts.projection)])
    ELSE Ok(sorted)

\* find from the projection on, `sorted` being the result after the sort
AfterSort(recs, q, opts, sorted) ==
    [outcome |-> Projected(sorted, opts),
     records |-> IF Len(q) = 0 THEN sorted ELSE recs]

\* find from the sort on, `filtered` being the outcome of the query
AfterQuery(recs, q, opts, filtered) ==
    IF ~filtered.ok THEN [outcome |-> filtered, records |-> recs]
    ELSE AfterSort(recs, q, opts,
                   IF opts.hasSort THEN SortPasses(filtered.rows, opts.sort)
                   ELSE filtered.rows)

\* find after the load: no record, or the query, the sort, the projection
find(recs, fullTextSearchFieldNames, q, opts) ==
    IF Len(recs) = 0 THEN [outcome |-> Ok(<<>>), records |-> recs]
    ELSE AfterQuery(recs, q, opts,
                    IF Len(q) = 0 THEN Ok(recs)
                    ELSE handleQuery(recs, fullTextSearchFieldNames, q))

(***************************************************************************)
(* find of exercise-13/database.ts, after `await this.loadDatabase()`: it  *)
(* reads queryElements[0] before any test of the query's length, and has   *)
(* the dispatch of handleQuery inline (the same text).                     *)
(***************************************************************************)
find13(recs, fullTextSearchFieldNames, q) ==
    IF Len(recs) = 0 THEN Ok(<<>>)
    ELSE IF Len(q) = 0 THEN Err("TypeError")
    ELSE handleQuery(recs, fullTextSearchFieldNames, q)

(***************************************************************************)
(* find of part_000, after `await this.loadDatabase()`: it has no options, *)
(* answers the first element of the query only, tests the fields of the    *)
(* first record before $text and the set operators, and takes the filter   *)
(* of a field from queryOperations (handleFieldQuery, which handleSetQuery *)
(* calls) or from arrayOperations (handleArrayQuery).                      *)
(***************************************************************************)
\* filterFn(fieldValue, valueToCompare) throws a TypeError, filterFn being
\* table[operator]: an operator of the other table is undefined in it
OperationThrowsOf(table, operator, fieldValue, valueToCompare) ==
    IF operator \in simpleOperations \ table THEN TRUE
    ELSE OperationThrows(operator, fieldValue, valueToCompare)

\* this.records.filter(entry => filterFn(entry[field], valueToCompare)) for
\* the filterFn of `table`, after the test of valueToCompare
FilterRecordsOf(table, recs, operator, field, valueToCompare) ==
    IF valueToCompare = Undefined THEN Err("something went wrong")
    ELSE IF \E i \in 1..Len(recs) :
                OperationThrowsOf(table, operator, GetProperty(recs[i], field),
                                  valueToCompare)
    THEN Err("TypeError")
    ELSE Ok(SelectSeq(recs, LAMBDA entry :
                ApplyOperation(operator, GetProperty(entry, field), valueToCompare)))

handleFieldQuery(recs, operator, subQuery, field) ==
    FilterRecordsOf(queryOperations, recs, operator, field, Lookup(subQuery, operator))

handleArrayQuery(recs, operator, subQuery, field) ==
    FilterRecordsOf(arrayOperations, recs, operator, field, Lookup(subQuery, operator))

RECURSIVE SetFold000(_, _, _, _)

\* the switch on setOperator for one filter result, and the entries left
SetStep000(recs, setOperator, rest, result, setQueryResult) ==
    IF ~setQueryResult.ok THEN setQueryResult
    ELSE IF setOperator = "$or"
    THEN SetFold000(recs, setOperator, rest, uniteResults(result, setQueryResult.rows))
    ELSE IF setOperator = "$and"
    THEN SetFold000(recs, setOperator, rest, intersectResults(result, setQueryResult.rows))
    ELSE Err("unhandled set operator")

\* the forEach over the entries, result being the accumulator
SetFold000(recs, setOperator, entries, result) ==
    IF entries = <<>> THEN Ok(result)
    ELSE SetStep000(recs, setOperator, Tail(entries), result,
                    handleFieldQuery(recs, FirstKey(Head(entries).value),
                                     Head(entries).value, Head(entries).key))

\* handleSetQuery of part_000
handleSetQuery000(recs, setOperator, queryArray) ==
    SetFold000(recs, setOperator, FlattenEntries(queryArray), <<>>)

\* the first element [key, value] of the query, key being a property of the
\* first record: the operator is the first key of the value, which for a
\* string or an array (the value of $text or of a set operator) is no
\* operator of a table; undefined and null have no keys to take
FieldQuery000(recs, key, value) ==
    IF key = "$text" /\ value.kind \in {"undef", "null"} THEN Err("TypeError")
    ELSE IF key = "$text" \/ InTable(key, setOperations)
    THEN Err("unhandled query operator")
    ELSE IF InTable(FirstKey(value), queryOperations)
    THEN handleFieldQuery(recs, FirstKey(value), value, key)
    ELSE IF InTable(FirstKey(value), arrayOperations)
    THEN handleArrayQuery(recs, FirstKey(value), value, key)
    ELSE Err("unhandled query operator")

\* find after the load: no record, no element of the query, or the first
\* element of the query
find000(recs, fullTextSearchFieldNames, q) ==
    IF Len(recs) = 0 \/ Len(q) = 0 THEN Ok(<<>>)
    ELSE IF HasProperty(recs[1], q[1].key)
    THEN FieldQuery000(recs, q[1].key, q[1].value)
    ELSE IF q[1].key = "$text"
    THEN handleTextQuery(recs, fullTextSearchFieldNames, q[1].value)
    ELSE IF InTable(q[1].key, setOperations)
    THEN handleSetQuery000(recs, q[1].key, q[1].value)
    ELSE Err("unhandled query format")

(***************************************************************************)
(* JSON texts, character by character: what JSON.stringify writes for a    *)
(* value and what JSON.parse reads from a text.  The characters are those  *)
(* of the strings; a number is read up to nine significant digits.         *)
(***************************************************************************)
\* the characters of a property name
NameChars(name) == [i \in 1..Len(name) |-> SubSeq(name, i, i)]

\* the property name the characters spell
RECURSIVE NameOf(_)
NameOf(cs) == IF cs = <<>> THEN "" ELSE Head(cs) \o NameOf(Tail(cs))

\* what JSON.stringify writes between the quotes for a character
EscapedChar(c) ==
    CASE c = "\"" -> <<"\\", "\"">>
      [] c = "\\" -> <<"\\", "\\">>
      [] c = "\n" -> <<"\\", "n">>
      [] c = "\r" -> <<"\\", "r">>
      [] c = "\t" -> <<"\\", "t">>
      [] c = "\f" -> <<"\\", "f">>
      [] OTHER -> <<c>>

RECURSIVE EscapedChars(_)
EscapedChars(cs) ==
    IF cs = <<>> THEN <<>> ELSE EscapedChar(Head(cs)) \o EscapedChars(Tail(cs))

\* the text of a string
Quoted(cs) == <<"\"">> \o EscapedChars(cs) \o <<"\"">>

\* JSON.stringify leaves out a property whose value is undefined or a
\* function
IsWritten(entry) == entry.value.kind \notin {"undef", "fn"}

RECURSIVE ValueText(_)
RECURSIVE ItemsText(_)
RECURSIVE EntriesText(_)

\* the texts of the elements of an array with the commas between them
ItemsText(items) ==
    IF items = <<>> THEN <<>>
    ELSE ValueText(Head(items))
             \o (IF Len(items) > 1 THEN <<",">> \o ItemsText(Tail(items)) ELSE <<>>)

\* the texts of the properties of an object with the commas between them
EntriesText(entries) ==
    IF entries = <<>> THEN <<>>
    ELSE Quoted(NameChars(Head(entries).key)) \o <<":">> \o ValueText(Head(entries).value)
             \o (IF Len(entries) > 1 THEN <<",">> \o EntriesText(Tail(entries)) ELSE <<>>)

\* JSON.stringify(v); an element that is undefined or a function, and a
\* number that is not finite, are written null
ValueText(v) ==
    CASE v.kind = "num" /\ v.e # InfinityExponent -> NumberToString(v.n, v.e)
      [] v.kind = "str" -> Quoted(v.s)
      [] v.kind = "arr" -> <<"[">> \o ItemsText(v.items) \o <<"]">>
      [] v.kind = "object" ->
            <<"{">> \o EntriesText(SelectSeq(v.items, IsWritten)) \o <<"}">>
      [] v.kind = "obj" -> <<"{", "}">>
      [] v.kind = "bool" -> JsToString(v)
      [] OTHER -> <<"n", "u", "l", "l">>

\* JSON.stringify(rec) for a plain object
JsonText(rec) == ValueText(Object(rec))

\* what JSON.parse has read: the value and the position after its text, or
\* nothing (the text is no JSON text there)
Parsed(v, next) == [ok |-> TRUE, value |-> v, next |-> next]

NotParsed == [ok |-> FALSE, value |-> Undefined, next |-> 0]

\* the white space of a JSON text
JsonWhiteSpace == {" ", "\t", "\n", "\r"}

\* the first position from i on that has no white space
RECURSIVE SkipWhiteSpace(_, _)
SkipWhiteSpace(cs, i) ==
    IF i <= Len(cs) /\ cs[i] \in JsonWhiteSpace THEN SkipWhiteSpace(cs, i + 1) ELSE i

\* the text has the characters `word` from position i on
StartsWith(cs, i, word) ==
    i + Len(word) - 1 <= Len(cs) /\ SubSeq(cs, i, i + Len(word) - 1) = word

\* the character of a code unit (the characters of the strings)
CodeChar(code) ==
    CASE code \in 32..95 -> AsciiLow[code - 31]
      [] code \in 97..126 -> AsciiHigh[code - 96]
      [] code \in Range(ControlCodes) -> ControlChars[IndexOf(ControlCodes, code)]

\* the character the escape of the letter c stands for
Unescaped(c) ==
    CASE c \in {"\"", "\\", "/"} -> c
      [] c = "b" -> CodeChar(8)
      [] c = "f" -> "\f"
      [] c = "n" -> "\n"
      [] c = "r" -> "\r"
      [] c = "t" -> "\t"

\* the four characters from position i on are hexadecimal digits
IsHex4(cs, i) == i + 3 <= Len(cs) /\ AllDigits(SubSeq(cs, i, i + 3), 16)

\* the string whose opening quote is before position i, acc being the
\* characters read so far: a character that is no control character, or an
\* escape, up to the closing quote
RECURSIVE ParseString(_, _, _)
ParseString(cs, i, acc) ==
    IF i > Len(cs) THEN NotParsed
    ELSE IF cs[i] = "\"" THEN Parsed(Str(acc), i + 1)
    ELSE IF cs[i] \in Range(ControlChars) THEN NotParsed
    ELSE IF cs[i] # "\\" THEN ParseString(cs, i + 1, Append(acc, cs[i]))
    ELSE IF i + 1 > Len(cs) THEN NotParsed
    ELSE IF cs[i + 1] \in {"\"", "\\", "/", "b", "f", "n", "r", "t"}
    THEN ParseString(cs, i + 2, Append(acc, Unescaped(cs[i + 1])))
    ELSE IF cs[i + 1] = "u" /\ IsHex4(cs, i + 2)
    THEN ParseString(cs, i + 6,
                     Append(acc, CodeChar(DigitsValue(SubSeq(cs, i + 2, i + 5), 16, 0))))
    ELSE NotParsed

\* the position after the decimal digits that begin at position i
RECURSIVE DigitsEnd(_, _)
DigitsEnd(cs, i) ==
    IF i <= Len(cs) /\ cs[i] \in Range(Digits) THEN DigitsEnd(cs, i + 1) ELSE i

\* the value of a number
NumberValue(number) ==
    IF number.inf THEN Decimal(number.m, InfinityExponent) ELSE Decimal(number.m, number.e)

\* the position after the digits that begin at position i, 0 when no digit
\* is there
DigitsAfter(cs, i) == IF DigitsEnd(cs, i) = i THEN 0 ELSE DigitsEnd(cs, i)

\* the position after the exponent whose letter is before position i: an
\* optional sign and digits; 0 when it has no digit
ExponentEnd(cs, i) ==
    DigitsAfter(cs, IF i <= Len(cs) /\ cs[i] \in {"+", "-"} THEN i + 1 ELSE i)

\* the number of the integer digits int..intEnd-1, the fraction digits up to
\* fractionEnd-1 and the exponent up to exponentEnd-1
NumberEnd(cs, sign, int, intEnd, fractionEnd, exponentEnd) ==
    IF exponentEnd = 0 THEN NotParsed
    ELSE Parsed(NumberValue(DecimalLiteral(SubSeq(cs, int, intEnd - 1),
                                           SubSeq(cs, intEnd + 1, fractionEnd - 1),
                                           exponentEnd > fractionEnd,
                                           SubSeq(cs, fractionEnd + 1, exponentEnd - 1),
                                           sign)),
                exponentEnd)

\* the number from its optional exponent on: e or E, an optional sign and
\* digits
NumberExponent(cs, sign, int, intEnd, fractionEnd) ==
    IF fractionEnd = 0 THEN NotParsed
    ELSE NumberEnd(cs, sign, int, intEnd, fractionEnd,
                   IF fractionEnd <= Len(cs) /\ cs[fractionEnd] \in {"e", "E"}
                   THEN ExponentEnd(cs, fractionEnd + 1)
                   ELSE fractionEnd)

\* the number from its optional fraction on: a point and digits
NumberFraction(cs, sign, int, intEnd) ==
    IF intEnd = int THEN NotParsed
    ELSE NumberExponent(cs, sign, int, intEnd,
                        IF intEnd <= Len(cs) /\ cs[intEnd] = "."
                        THEN DigitsAfter(cs, intEnd + 1)
                        ELSE intEnd)

\* the number from its integer digits on: a zero, or digits that do not
\* begin with a zero
NumberInt(cs, sign, int) ==
    NumberFraction(cs, sign, int,
                   IF int <= Len(cs) /\ cs[int] = "0" THEN int + 1 ELSE DigitsEnd(cs, int))

\* the number that begins at position i, after its optional minus
ParseNumber(cs, i) ==
    IF cs[i] = "-" THEN NumberInt(cs, -1, i + 1) ELSE NumberInt(cs, 1, i)

RECURSIVE ParseValue(_, _)
RECURSIVE ParseElements(_, _, _)
RECURSIVE ParseMembers(_, _, _)

\* the array after the element read, acc being the elements before it: a
\* comma and more elements, or the closing bracket
ElementsNext(cs, elements, at) ==
    IF at > Len(cs) THEN NotParsed
    ELSE IF cs[at] = "," THEN ParseElements(cs, at + 1, elements)
    ELSE IF cs[at] = "]" THEN Parsed(Arr(elements), at + 1)
    ELSE NotParsed

\* the array after the element that was to be read
ElementRead(cs, acc, element) ==
    IF ~element.ok THEN NotParsed
    ELSE ElementsNext(cs, Append(acc, element.value), SkipWhiteSpace(cs, element.next))

\* the elements of an array from position i on, acc being those before
\* them
ParseElements(cs, i, acc) == ElementRead(cs, acc, ParseValue(cs, i))

\* the object after the property read: a comma and more properties, or the
\* closing brace
MembersNext(cs, members, at) ==
    IF at > Len(cs) THEN NotParsed
    ELSE IF cs[at] = "," THEN ParseMembers(cs, at + 1, members)
    ELSE IF cs[at] = "}" THEN Parsed(Object(members), at + 1)
    ELSE NotParsed

\* the property of the name `key` and the value read: a name read again
\* keeps its place and takes the later value
MemberRead(cs, acc, key, member) ==
    IF ~member.ok THEN NotParsed
    ELSE MembersNext(cs, Spread(acc, <<Entry(NameOf(key), member.value)>>),
                     SkipWhiteSpace(cs, member.next))

\* the colon and the value of the property of the name `key`
MemberValue(cs, acc, key, colon) ==
    IF colon <= Len(cs) /\ cs[colon] = ":"
    THEN MemberRead(cs, acc, key, ParseValue(cs, colon + 1))
    ELSE NotParsed

\* the property after the name that was to be read
MemberNamed(cs, acc, name) ==
    IF ~name.ok THEN NotParsed
    ELSE MemberValue(cs, acc, name.value.s, SkipWhiteSpace(cs, name.next))

\* the property whose name begins at position quote
MemberName(cs, acc, quote) ==
    IF quote <= Len(cs) /\ cs[quote] = "\""
    THEN MemberNamed(cs, acc, ParseString(cs, quote + 1, <<>>))
    ELSE NotParsed

\* the properties of an object from position i on, acc being those before
\* them: a name, a colon and a value
ParseMembers(cs, i, acc) == MemberName(cs, acc, SkipWhiteSpace(cs, i))

\* the value that begins at position at, inner being the position after
\* the white space that follows it
ValueAt(cs, at, inner) ==
    IF at > Len(cs) THEN NotParsed
    ELSE CASE cs[at] = "{" ->
                 IF inner <= Len(cs) /\ cs[inner] = "}"
                 THEN Parsed(Object(<<>>), inner + 1)
                 ELSE ParseMembers(cs, at + 1, <<>>)
           [] cs[at] = "[" ->
                 IF inner <= Len(cs) /\ cs[inner] = "]"
                 THEN Parsed(Arr(<<>>), inner + 1)
                 ELSE ParseElements(cs, at + 1, <<>>)
           [] cs[at] = "\"" -> ParseString(cs, at + 1, <<>>)
           [] cs[at] = "-" \/ cs[at] \in Range(Digits) -> ParseNumber(cs, at)
           [] StartsWith(cs, at, <<"t", "r", "u", "e">>) -> Parsed(Bool(TRUE), at + 4)
           [] StartsWith(cs, at, <<"f", "a", "l", "s", "e">>) -> Parsed(Bool(FALSE), at + 5)
           [] StartsWith(cs, at, <<"n", "u", "l", "l">>) -> Parsed(Null, at + 4)
           [] OTHER -> NotParsed

\* the value that begins at position at
ValueFrom(cs, at) == ValueAt(cs, at, SkipWhiteSpace(cs, at + 1))

\* the value whose text begins at position i, after white space
ParseValue(cs, i) == ValueFrom(cs, SkipWhiteSpace(cs, i))

\* the text ends after the value read, white space aside
TextRead(cs, parsed) ==
    IF parsed.ok /\ SkipWhiteSpace(cs, parsed.next) > Len(cs) THEN parsed ELSE NotParsed

\* JSON.parse of the characters: the text of one value with white space
\* around it, or a SyntaxError
ParseText(cs) == TextRead(cs, ParseValue(cs, 1))

(***************************************************************************)
(* The backing file and loadDatabase.  The text of the file is a sequence  *)
(* of characters [ch, doc]: a character of the strings (one byte of the    *)
(* file), or "{}", which stands for the characters JSON.stringify writes   *)
(* for the plain object doc.  NoFile stands for the file not being there:  *)
(* it is no text, and reading it fails.                                    *)
(***************************************************************************)
NoDoc == <<>>

Ch(c) == [ch |-> c, doc |-> NoDoc]

\* the file does not exist: fs.readFile rejects with the error ENOENT
NoFile == <<[ch |-> "ENOENT", doc |-> NoDoc]>>

LineFeed == Ch("\n")

Json(rec) == [ch |-> "{}", doc |-> rec]

\* the characters of the text, one by one
RECURSIVE Chars(_)
Chars(text) ==
    IF text = <<>> THEN <<>>
    ELSE (IF Head(text).ch = "{}" THEN JsonText(Head(text).doc) ELSE <<Head(text).ch>>)
             \o Chars(Tail(text))

\* dbContents.split('\n')
RECURSIVE SplitRows(_, _)
SplitRows(text, cur) ==
    IF text = <<>> THEN <<cur>>
    ELSE IF Head(text).ch = "\n" THEN <<cur>> \o SplitRows(Tail(text), <<>>)
    ELSE SplitRows(Tail(text), Append(cur, Head(text)))

\* the value is one that JSON.parse reads from a text
RECURSIVE IsJson(_)
IsJson(v) ==
    CASE v.kind = "num" -> ToDouble(v.n, v.e) = Finite(v.n, v.e)
      [] v.kind \in {"str", "bool", "null"} -> TRUE
      [] v.kind = "arr" -> \A i \in 1..Len(v.items) : IsJson(v.items[i])
      [] v.kind = "object" ->
            /\ \A i, j \in 1..Len(v.items) : v.items[i].key = v.items[j].key => i = j
            /\ \A i \in 1..Len(v.items) : IsJson(v.items[i].value)
      [] OTHER -> FALSE

\* JSON.parse(payload): the text JSON.stringify wrote for an object that
\* JSON.parse can have read is read as that object, any other text
\* character by character
JsonValue(payload) ==
    IF Len(payload) = 1 /\ payload[1].ch = "{}" /\ IsJson(Object(payload[1].doc))
    THEN Parsed(Object(payload[1].doc), 2)
    ELSE ParseText(Chars(payload))

\* JSON.parse(payload) does not throw
JsonParses(payload) == JsonValue(payload).ok

\* the value JSON.parse(payload) has read, as what `at` of the load holds
Loaded(v, at) ==
    IF v.kind = "object"
    THEN [i \in 1..Len(v.items) |->
             Entry(v.items[i].key, Fresh(v.items[i].value, <<at, i>>))]
    ELSE Fresh(v, <<at>>)

\* what JSON.parse(payload) makes for record number `at` of the load
JsonParse(payload, at) == Loaded(JsonValue(payload).value, at)

\* the reduce of loadDatabase taking every line with a payload for an entry
RECURSIVE LoadRows_AnyMarker(_, _)
LoadRows_AnyMarker(rows, res) ==
    IF rows = <<>> THEN Ok(res)
    ELSE LET row == Head(rows)
         IN IF Len(row) > 1
            THEN IF JsonParses(Tail(row))
                 THEN LoadRows_AnyMarker(Tail(rows), Append(res, JsonParse(Tail(row), Len(res) + 1)))
                 ELSE Err("SyntaxError")
            ELSE LoadRows_AnyMarker(Tail(rows), res)

\* the reduce of loadDatabase skipping an entry line that does not decode
RECURSIVE LoadRows_SkipMalformed(_, _)
LoadRows_SkipMalformed(rows, res) ==
    IF rows = <<>> THEN Ok(res)
    ELSE LET row == Head(rows)
         IN IF Len(row) > 0 /\ row[1].ch = "E" /\ JsonParses(Tail(row))
            THEN LoadRows_SkipMalformed(Tail(rows), Append(res, JsonParse(Tail(row), Len(res) + 1)))
            ELSE LoadRows_SkipMalformed(Tail(rows), res)

\* the reduce of loadDatabase over the rows, res being the accumulator
RECURSIVE LoadRows(_, _)
LoadRows(rows, res) ==
    IF rows = <<>> THEN Ok(res)
    ELSE LET row == Head(rows)
         IN IF Len(row) > 0 /\ row[1].ch = "E"
            THEN IF JsonParses(Tail(row))
                 THEN LoadRows(Tail(rows), Append(res, JsonParse(Tail(row), Len(res) + 1)))
                 ELSE Err("SyntaxError")
            ELSE LoadRows(Tail(rows), res)

\* loadDatabase over what the file is when it is read: the rejection of
\* fs.readFile, or the reduce over the lines of the text
loadDatabase(dbContents) ==
    IF dbContents = NoFile THEN Err("ENOENT")
    ELSE LoadRows(SplitRows(dbContents, <<>>), <<>>)

(***************************************************************************)
(* The state: one Database object and one call of its find.                *)
(*   fileText                  the contents of the backing file            *)
(*   fullTextSearchFieldNames  the constructor's second argument           *)
(*   class                     which Database class the object is of       *)
(*   records                   this.records                                *)
(*   query, options            the arguments of the call                   *)
(*   pc                        where the call is: "idle" (not called yet), *)
(*                             "reading" (suspended at fs.readFile),       *)
(*                             "loaded" (loadDatabase has returned),       *)
(*                             "settled" (the promise of find is settled)  *)
(*   outcome                   the value or the error find settled with    *)
(* and, for the calls of loadDatabase made by the program itself and the   *)
(* calls that overlap on the one object:                                   *)
(*   calls                     the bag of the calls (find and              *)
(*                             loadDatabase) suspended at the read, each   *)
(*                             with its arguments, its position, the file  *)
(*                             its read has open and what it has read      *)
(*   microtasks                the queue of promise jobs of the event      *)
(*                             loop, each with the call it continues or    *)
(*                             gives the outcome of                        *)
(***************************************************************************)
VARIABLES fileText, fullTextSearchFieldNames, class, records, query, options,
          pc, outcome, calls, microtasks

vars == <<fileText, fullTextSearchFieldNames, class, records, query, options,
          pc, outcome, calls, microtasks>>

\* the variables of the single call, and those of the overlapping calls
singleCallVars == <<query, options, pc, outcome>>

overlappingCallVars == <<calls, microtasks>>

Classes == {"part_001", "exercise-13"}

Pending == Err("pending")

\* new Database(filename, fullTextSearchFieldNames) of one of `classes`
\* over one of `files`, and the arguments of the call that follows
Constructed(classes, files, fieldNameLists, queries, optionSets) ==
    /\ fileText \in files
    /\ fullTextSearchFieldNames \in fieldNameLists
    /\ class \in classes
    /\ records = <<>>
    /\ query \in queries
    /\ options \in (IF class = "part_001" THEN optionSets ELSE {NoOptions})
    /\ pc = "idle"
    /\ outcome = Pending
    /\ calls = EmptyBag
    /\ microtasks = <<>>

\* the same for the class of part_001 and that of exercise-13
Construct(files, fieldNameLists, queries, optionSets) ==
    Constructed(Classes, files, fieldNameLists, queries, optionSets)

Job(c, name) == [call |-> c, job |-> name]

\* the promise of loadDatabase() is resolved: it has no value
Void == [ok |-> TRUE, rows |-> <<>>, err |-> "void"]

\* no file is open
Closed == [linked |-> FALSE, text |-> <<>>]

\* every call in flight: those suspended at the read and those a job of
\* the queue continues or gives to its caller
AllCalls == BagToSet(calls) \cup {microtasks[i].call : i \in DOMAIN microtasks}

\* how many calls of loadDatabase made by the program itself are in flight
Loads ==
    BagCardinality([c \in {d \in BagToSet(calls) : d.method = "loadDatabase"} |-> calls[c]])
        + Cardinality({i \in DOMAIN microtasks : microtasks[i].call.method = "loadDatabase"})

\* one more call is made, with at most MaxCalls in flight
Called(call) ==
    /\ BagCardinality(calls) + Len(microtasks) < MaxCalls
    /\ calls' = calls (+) SetToBag({call})

\* the calls with the call `c` having become `after`
Moved(c, after) == (calls (-) SetToBag({c})) (+) SetToBag({after})

\* find(query, options) is called and suspends at the file read
Call ==
    /\ pc = "idle"
    /\ pc' = "reading"
    /\ UNCHANGED <<fileText, fullTextSearchFieldNames, class, records, query,
                   options, outcome>>
    /\ UNCHANGED overlappingCallVars

\* loadDatabase() is called on the object by the program itself, not by
\* find: it calls fs.readFile and suspends
CallLoadDatabase ==
    /\ Loads < MaxLoads
    /\ Called([method |-> "loadDatabase", query |-> <<>>, options |-> NoOptions,
               pc |-> "opening", fd |-> Closed, size |-> 0,
               dbContents |-> <<>>, outcome |-> Pending])
    /\ UNCHANGED <<fileText, fullTextSearchFieldNames, class, records, microtasks>>
    /\ UNCHANGED singleCallVars

\* the read of a call of loadDatabase made by the program itself completes
\* and the call runs to its end: this.records is replaced, or the promise
\* it returned is rejected (fs.readFile or JSON.parse failed) and
\* this.records stays.  Between the assignment of a load made by find and
\* the continuation of that find no other code runs.
ReturnLoadDatabase ==
    /\ pc # "loaded"
    /\ \E c \in BagToSet(calls) :
          /\ c.method = "loadDatabase"
          /\ calls' = calls (-) SetToBag({c})
    /\ LET data == loadDatabase(fileText)
       IN records' = IF data.ok THEN data.rows ELSE records
    /\ UNCHANGED <<fileText, fullTextSearchFieldNames, class, microtasks>>
    /\ UNCHANGED singleCallVars

\* the read completes and loadDatabase runs to its end: this.records is
\* replaced, or fs.readFile or JSON.parse fails and the call fails with its
\* error
LoadDatabase ==
    /\ pc = "reading"
    /\ LET data == loadDatabase(fileText)
       IN IF data.ok
          THEN /\ records' = data.rows
               /\ pc' = "loaded"
               /\ UNCHANGED outcome
          ELSE /\ outcome' = data
               /\ pc' = "settled"
               /\ UNCHANGED records
    /\ UNCHANGED <<fileText, fullTextSearchFieldNames, class, query, options>>
    /\ UNCHANGED overlappingCallVars

\* the promise settles with what find returned or threw, this.records
\* being the array find left
Settle(r) ==
    /\ outcome' = r.outcome
    /\ records' = r.records

\* the rest of find(query, options) of part_001
Find ==
    /\ pc = "loaded"
    /\ class = "part_001"
    /\ Settle(find(records, fullTextSearchFieldNames, query, options))
    /\ pc' = "settled"
    /\ UNCHANGED <<fileText, fullTextSearchFieldNames, class, query, options>>
    /\ UNCHANGED overlappingCallVars

\* the rest of find(query) of exercise-13/database.ts
Find13 ==
    /\ pc = "loaded"
    /\ class = "exercise-13"
    /\ outcome' = find13(records, fullTextSearchFieldNames, query)
    /\ pc' = "settled"
    /\ UNCHANGED <<fileText, fullTextSearchFieldNames, class, records, query,
                   options>>
    /\ UNCHANGED overlappingCallVars

\* the rest of find(query) of part_000
Find000 ==
    /\ pc = "loaded"
    /\ class = "part_000"
    /\ outcome' = find000(records, fullTextSearchFieldNames, query)
    /\ pc' = "settled"
    /\ UNCHANGED <<fileText, fullTextSearchFieldNames, class, records, query,
                   options>>
    /\ UNCHANGED overlappingCallVars

Next == Call \/ CallLoadDatabase \/ ReturnLoadDatabase \/ LoadDatabase \/ Find \/ Find13

\* the steps of an object of the class of part_000
Next000 == Call \/ CallLoadDatabase \/ ReturnLoadDatabase \/ LoadDatabase \/ Find000

(***************************************************************************)
(* Inputs: record collections and the files that hold them.                *)
(***************************************************************************)
NumValues == {Num(i) : i \in 1..MaxNum}

\* the records with an _id of idValues and, for any of the names of
\* `fields`, a value of `values`
RECURSIVE OptionalEntries(_, _)
OptionalEntries(fields, values) ==
    IF fields = <<>> THEN {<<>>}
    ELSE LET rest == OptionalEntries(Tail(fields), values)
         IN rest \cup {<<Entry(Head(fields), v)>> \o r : v \in values, r \in rest}

RecordsOver(idValues, fields, values) ==
    {<<Entry("_id", id)>> \o es : id \in idValues, es \in OptionalEntries(fields, values)}

Collections(recs, maxLen) == UNION {[1..n -> recs] : n \in 0..maxLen}

\* the value as a text writes it: two arrays of the same elements are
\* written the same
RECURSIVE Written(_)
Written(v) ==
    IF v.kind = "arr"
    THEN [v EXCEPT !.ref = <<>>,
                   !.items = [i \in 1..Len(v.items) |-> Written(v.items[i])]]
    ELSE IF v.kind = "object"
    THEN [v EXCEPT !.ref = <<>>,
                   !.items = [i \in 1..Len(v.items) |->
                                 Entry(v.items[i].key, Written(v.items[i].value))]]
    ELSE v

\* no two records have the same _id value (two arrays of the same elements
\* are the same value)
UniqueIds(rows) ==
    \A i, j \in 1..Len(rows) :
        Written(GetProperty(rows[i], "_id")) = Written(GetProperty(rows[j], "_id"))
            => i = j

\* two records whose _id are arrays, of the same element or not
ArrayIdCollections ==
    {<<<<Entry("_id", Arr(<<Num(1)>>)), Entry("a", Num(1))>>,
       <<Entry("_id", Arr(<<Num(i)>>)), Entry("a", Num(2))>>>> : i \in 1..2}

\* the text of a file with one entry line per record
RECURSIVE FileOf(_)
FileOf(rows) ==
    IF rows = <<>> THEN <<>>
    ELSE IF Len(rows) = 1 THEN <<Ch("E"), Json(rows[1])>>
    ELSE <<Ch("E"), Json(rows[1]), LineFeed>> \o FileOf(Tail(rows))

\* comparison values of the queries: the field values and both neighbours
\* the values a query compares with: numbers, a string that reads as a
\* number and an array of one number
CompareValues ==
    {Num(i) : i \in 0..(MaxNum + 1)} \cup {Str(<<"2">>), Arr(<<Num(1)>>)}

FieldDoc(field, operator, value) == <<Entry(field, <<Entry(operator, value)>>)>>

(***************************************************************************)
(* Specification of the $and queries {$and: [{F: {$gt: a}}, {F: {$lt: b}}]} *)
(* over collections with unique _id values.                                *)
(***************************************************************************)
AndCollections ==
    {c \in Collections(RecordsOver({Num(i) : i \in 1..MaxRecords}, <<"a">>, NumValues),
                       MaxRecords) \cup ArrayIdCollections : UniqueIds(c)}

AndQuery(field, a, b) ==
    <<Entry("$and", <<FieldDoc(field, "$gt", a), FieldDoc(field, "$lt", b)>>)>>

AndQueries == {AndQuery(f, a, b) : f \in {"a", "_id"}, a \in CompareValues, b \in CompareValues}

InitAnd ==
    Construct({FileOf(c) : c \in AndCollections}, {<<>>}, AndQueries, {NoOptions})

SpecAnd == InitAnd /\ [][Next]_vars

\* the call has returned or thrown
Settled == pc = "settled"

\* the records of this.records whose field value satisfies `operator`
Matching(field, operator, value) ==
    {r \in Range(records) : ApplyOperation(operator, GetProperty(r, field), value)}

\* C1: a $and of {F: {$gt: a}} and {F: {$lt: b}} over a non-empty collection
\* with unique ids returns exactly the records whose F is > a and < b
C1_IntersectionLaw ==
    (Settled /\ records # <<>> /\ query[1].key = "$and") =>
        LET docs == query[1].value
            field == docs[1][1].key
            a == docs[1][1].value[1].value
            b == docs[2][1].value[1].value
        IN /\ outcome.ok
           /\ Range(outcome.rows) =
                  Matching(field, "$gt", a) \cap Matching(field, "$lt", b)

(***************************************************************************)
(* Specification of the per-field queries with several selectors, over     *)
(* collections with unique _id values.                                     *)
(***************************************************************************)
SmallIds == {Num(i) : i \in 1..2}

FieldsCollections ==
    {c \in Collections(RecordsOver(SmallIds, <<"a", "b">>, NumValues), 2) : UniqueIds(c)}

\* the sub-queries a selector is given
SelectorSubQueries ==
    {<<Entry("$eq", Num(1))>>, <<Entry("$gt", Num(1))>>, <<Entry("$lt", Num(2))>>}

\* the sequences of two or three selectors on distinct fields
FieldsQueries ==
    {q \in UNION {[1..n -> {Entry(f, sq) : f \in {"_id", "a", "b"},
                                           sq \in SelectorSubQueries}] : n \in 2..3} :
        \A i, j \in 1..Len(q) : q[i].key = q[j].key => i = j}

InitFields ==
    Construct({FileOf(c) : c \in FieldsCollections}, {<<>>}, FieldsQueries, {NoOptions})

SpecFields == InitFields /\ [][Next]_vars

\* record r satisfies the selector [key, value] of a per-field query
Satisfies(r, selector) ==
    ApplyOperation(FirstKey(selector.value), GetProperty(r, selector.key),
                   selector.value[1].value)

\* C2: a per-field query with several selectors returns exactly the records
\* that satisfy every selector
C2_FieldsAreIntersected ==
    (Settled /\ records # <<>> /\ query[1].key \in OwnKeys(records[1])) =>
        /\ outcome.ok
        /\ Range(outcome.rows) =
               {r \in Range(records) : \A i \in 1..Len(query) : Satisfies(r, query[i])}

(***************************************************************************)
(* Specification of the $or queries, over every collection of records with *)
(* an optional field a (the _id values need not be unique: the loader does *)
(* not check them).                                                        *)
(***************************************************************************)
OrIds == {Num(i) : i \in 1..MaxRecords}

\* the values of the field a: one that each filter of OrDocs on a accepts
\* and one that it rejects
OrValues == {Num(1), Num(2)}

\* the collections of up to MaxRecords records with unique _id values,
\* those of two records with the same _id, and those with arrays for _id
OrCollections ==
    {c \in Collections(RecordsOver(OrIds, <<"a">>, OrValues), MaxRecords) :
        UniqueIds(c) \/ Len(c) <= 2}
    \cup ArrayIdCollections

OrSubQueries == {<<Entry("$eq", Num(1))>>, <<Entry("$gt", Num(1))>>}

\* inner documents: one entry, or an entry on a followed by one on _id
OrDocs ==
    {<<Entry(f, sq)>> : f \in {"a", "_id"}, sq \in OrSubQueries}
    \cup {<<Entry("a", <<Entry("$gt", Num(1))>>), Entry("_id", <<Entry("$eq", Num(1))>>)>>,
          <<Entry("_id", <<Entry("$in", Arr(<<Num(3), Num(1)>>))>>),
            Entry("a", <<Entry("$lt", Num(2))>>)>>}

OrQueries == {<<Entry("$or", docs)>> : docs \in UNION {[1..n -> OrDocs] : n \in 0..2}}

InitOr == Construct({FileOf(c) : c \in OrCollections}, {<<>>}, OrQueries, {NoOptions})

SpecOr == InitOr /\ [][Next]_vars

\* the field filters of a set query, in the order they are folded
FiltersOf(q) == FlattenEntries(q[1].value)

\* the 1-based position of the first filter of `filters` that r satisfies
FirstMatch(r, filters) ==
    CHOOSE i \in 1..Len(filters) :
        /\ Satisfies(r, filters[i])
        /\ \A j \in 1..(i - 1) : ~Satisfies(r, filters[j])

\* a record matched by two of the filters of the query
MatchedTwice(r, filters) ==
    \E i, j \in 1..Len(filters) :
        i # j /\ Satisfies(r, filters[i]) /\ Satisfies(r, filters[j])

\* the result is the union of the field filters of the $or query: exactly
\* the records matched by a filter, no two with the same _id, ordered by
\* the first filter that matched them (earlier fold results in front)
OrResultIsUnion ==
    LET filters == FiltersOf(query)
        rows == outcome.rows
    IN /\ outcome.ok
       /\ Range(rows) =
              {r \in Range(records) :
                  \E i \in 1..Len(filters) : Satisfies(r, filters[i])}
       /\ UniqueIds(rows)
       /\ \A i, j \in 1..Len(rows) :
              i < j => FirstMatch(rows[i], filters) <= FirstMatch(rows[j], filters)

\* C3 (as claimed): for every loaded collection, a $or query returns
\* exactly the records matched by at least one of its field filters, no two
\* of them with the same _id, in the order of the fold
C3_UnionLaw == (Settled /\ query[1].key = "$or") => OrResultIsUnion

\* C3 (amended): the same for every loaded collection whose _id values are
\* unique
C3_UnionLawUniqueIds ==
    (Settled /\ query[1].key = "$or" /\ UniqueIds(records)) => OrResultIsUnion

\* a $or of two documents over three records with unique ids has returned
\* a record matched by two filters once, after a record of the first filter
C3_Witness ==
    /\ Settled /\ query[1].key = "$or" /\ outcome.ok
    /\ UniqueIds(records) /\ Len(records) = 3
    /\ Len(query[1].value) = 2
    /\ Len(outcome.rows) >= 2
    /\ \E i \in 1..Len(outcome.rows) : MatchedTwice(outcome.rows[i], FiltersOf(query))
    /\ outcome.rows[1] # records[1]

(***************************************************************************)
(* Specification of the empty query document.                              *)
(***************************************************************************)
InitEmpty == Construct({FileOf(c) : c \in OrCollections}, {<<>>}, {<<>>}, {NoOptions})

SpecEmpty == InitEmpty /\ [][Next]_vars

\* C4: find({}) on a non-empty collection returns every loaded record in
\* file order and raises no error, in both classes
C4_EmptyQueryReturnsAll ==
    (Settled /\ records # <<>> /\ query = <<>>) =>
        (outcome.ok /\ outcome.rows = records)

(***************************************************************************)
(* Specification of the equality queries {F: {$eq: v}} over records whose  *)
(* field sets differ.                                                      *)
(***************************************************************************)
\* the values of the fields: numbers and an array
EqValues == NumValues \cup {Arr(<<Num(1)>>)}

EqCollections == Collections(RecordsOver(SmallIds, <<"a", "b">>, EqValues), 2)

EqQueries == {FieldDoc(f, "$eq", v) : f \in {"a", "b"}, v \in CompareValues}

InitEq == Construct({FileOf(c) : c \in EqCollections}, {<<>>}, EqQueries, {NoOptions})

SpecEq == InitEq /\ [][Next]_vars

\* C5: {F: {$eq: v}} returns every record whose F is v, and no record that
\* has a field F of another value
C5_EqualityIncludesRecord ==
    (Settled /\ Len(query) = 1 /\ FirstKey(query[1].value) = "$eq") =>
        LET field == query[1].key
            v == query[1].value[1].value
        IN \A i \in 1..Len(records) :
               field \in OwnKeys(records[i]) =>
                   IF OwnValue(records[i], field) = v
                   THEN outcome.ok /\ Includes(outcome.rows, records[i])
                   ELSE ~Includes(outcome.rows, records[i])

(***************************************************************************)
(* Specification of the full-text queries {$text: phrase}.                 *)
(***************************************************************************)
StringsOver(alphabet, maxLen) == UNION {[1..n -> alphabet] : n \in 0..maxLen}

FieldStrings == StringsOver({"a", "B", " "}, MaxStrLen)

Phrases == StringsOver({"a", "b", " "}, MaxStrLen)

\* the records that follow the first one in a collection
TextTails ==
    {<<>>,
     <<<<Entry("_id", Num(2))>>>>,
     <<<<Entry("_id", Num(2)), Entry("t", Str(<<"a", " ", "B">>))>>>>,
     <<<<Entry("u", Str(<<"B">>)), Entry("_id", Num(2))>>>>,
     <<<<Entry("u", Str(<<"B", "B">>)), Entry("_id", Num(2)), Entry("t", Str(<<"a">>))>>>>,
     <<<<Entry("_id", Num(2)), Entry("t", Arr(<<Str(<<"a">>), Str(<<"B", " ", "b">>)>>))>>>>}

TextCollections ==
    {<<<<Entry("_id", Num(1)), Entry("t", Str(cs))>>>> \o tail :
        cs \in FieldStrings, tail \in TextTails}

TextQueries == {<<Entry("$text", Str(p))>> : p \in Phrases}

InitText ==
    Construct({FileOf(c) : c \in TextCollections}, {<<"t">>, <<"t", "u">>},
              TextQueries, {NoOptions})

SpecText == InitText /\ [][Next]_vars

\* the tokens of a string: its maximal pieces without a space, an empty
\* piece for every space that starts or ends the string or follows a space
Tokens(cs) ==
    {SubSeq(cs, i, j - 1) : <<i, j>> \in
        {p \in (1..(Len(cs) + 1)) \X (1..(Len(cs) + 1)) :
            /\ p[1] <= p[2]
            /\ p[1] = 1 \/ cs[p[1] - 1] = " "
            /\ p[2] = Len(cs) + 1 \/ cs[p[2]] = " "
            /\ \A k \in p[1]..(p[2] - 1) : cs[k] # " "}}

\* the tokens of the record's values for the full-text fields: those of
\* every value, or the one empty token of the empty text when it has none
RecordTokens(r) ==
    LET names == Range(fullTextSearchFieldNames) \cap OwnKeys(r)
    IN IF names = {} THEN {<<>>}
       ELSE UNION {Tokens(ToLowerCase(JsToString(OwnValue(r, k)))) : k \in names}

SharesToken(r, phrase) == RecordTokens(r) \cap Tokens(ToLowerCase(phrase)) # {}

\* C6: {$text: phrase} returns, in collection order, exactly the records
\* that share a token with the phrase, both lowercased and split on spaces
C6_TextMatchesAnyToken ==
    (Settled /\ Len(query) = 1 /\ query[1].key = "$text") =>
        /\ outcome.ok
        /\ outcome.rows =
               SelectSeq(records, LAMBDA r : SharesToken(r, query[1].value.s))

\* a phrase of two tokens, one of them shared with a record in another case
\* and the other not, selects that record and leaves another one out
C6_Witness ==
    /\ Settled /\ Len(query) = 1 /\ query[1].key = "$text"
    /\ query[1].value.s = <<"b", " ", "a">>
    /\ Len(records) = 2 /\ Len(outcome.rows) = 1
    /\ outcome.rows[1] = records[2]
    /\ OwnKeys(records[2]) = {"_id", "u"}
    /\ OwnValue(records[2], "u").s = <<"B">>
    /\ fullTextSearchFieldNames = <<"t", "u">>

(***************************************************************************)
(* Specification of the projection option.                                 *)
(***************************************************************************)
ProjectionQueries == {<<>>, FieldDoc("a", "$gt", Num(1)), FieldDoc("_id", "$in", Arr(<<Num(1)>>))}

\* the lists of distinct requested names: of fields, and of no field
ProjectionKeys ==
    {ks \in UNION {[1..n -> {"_id", "a", "zz"}] : n \in 0..3} :
        \A i, j \in 1..Len(ks) : ks[i] = ks[j] => i = j}

InitProjection ==
    Construct({FileOf(c) : c \in OrCollections}, {<<>>}, ProjectionQueries,
              {Project(ks) : ks \in ProjectionKeys})

SpecProjection == InitProjection /\ [][Next]_vars

\* the outcome of the same call without the projection option
Unprojected ==
    find(records, fullTextSearchFieldNames, query,
         [options EXCEPT !.hasProjection = FALSE]).outcome

\* C7: with a projection, find does not fail and returns, for every record
\* of the unprojected result, the record restricted to the requested names
\* it has
C7_ProjectionKeepsRequested ==
    (Settled /\ class = "part_001" /\ options.hasProjection /\ Unprojected.ok) =>
        /\ outcome.ok
        /\ Len(outcome.rows) = Len(Unprojected.rows)
        /\ \A i \in 1..Len(Unprojected.rows) :
               LET row == Unprojected.rows[i]
                   keys == Range(options.projection) \cap OwnKeys(row)
               IN /\ OwnKeys(outcome.rows[i]) = keys
                  /\ \A k \in keys : OwnValue(outcome.rows[i], k) = OwnValue(row, k)

(***************************************************************************)
(* Specification of the sort option with one key.                          *)
(***************************************************************************)
SortQueries == {<<>>, FieldDoc("_id", "$gt", Num(0))}

SortOptions == {SortBy(<<Entry(f, d)>>) : f \in {"a", "_id"}, d \in {1, -1}}

InitSort ==
    Construct({FileOf(c) : c \in OrCollections}, {<<>>}, SortQueries, SortOptions)

SpecSort == InitSort /\ [][Next]_vars

\* how many times x occurs in seq
Count(seq, x) == Cardinality({i \in 1..Len(seq) : seq[i] = x})

\* C8: with one sort key, find returns the records of the unsorted result,
\* no record before one with a smaller (ascending) or greater (descending)
\* value of the sort field
C8_SingleKeySortOrders ==
    (Settled /\ class = "part_001" /\ options.hasSort /\ Len(options.sort) = 1) =>
        LET field == options.sort[1].key
            direction == options.sort[1].value
            unsorted == find(loadDatabase(fileText).rows, fullTextSearchFieldNames,
                             query, NoOptions).outcome.rows
            rows == outcome.rows
            val(r) == GetProperty(r, field)
        IN /\ outcome.ok
           /\ Len(rows) = Len(unsorted)
           /\ \A r \in Range(unsorted) : Count(rows, r) = Count(unsorted, r)
           /\ \A i, j \in 1..Len(rows) :
                  i < j => IF direction = 1
                           THEN ~JsLess(val(rows[j]), val(rows[i]))
                           ELSE ~JsLess(val(rows[i]), val(rows[j]))

(***************************************************************************)
(* Specification of loadDatabase over the texts of the file.               *)
(***************************************************************************)
LoadDocs == {<<Entry("_id", Num(i))>> : i \in 1..2}

FileChars == {Ch("E"), Ch("D"), LineFeed, Ch("{")} \cup {Json(r) : r \in LoadDocs}

\* the three lines E{"_id":1}, D{"_id":1}, E{"_id":2}
ScenarioFile ==
    <<Ch("E"), Json(<<Entry("_id", Num(1))>>), LineFeed,
      Ch("D"), Json(<<Entry("_id", Num(1))>>), LineFeed,
      Ch("E"), Json(<<Entry("_id", Num(2))>>)>>

FileTexts ==
    UNION {[1..n -> FileChars] : n \in 0..MaxFileLen} \cup {ScenarioFile, NoFile}

InitLoad == Construct(FileTexts, {<<>>}, {<<>>}, {NoOptions})

SpecLoad == InitLoad /\ [][Next]_vars

\* the positions of the file text where a line begins with the marker E
EntryStarts(text) ==
    {i \in 1..Len(text) : text[i].ch = "E" /\ (i = 1 \/ text[i - 1].ch = "\n")}

\* the position after the last character of the line that begins at i
LineEnd(text, i) ==
    CHOOSE j \in i..(Len(text) + 1) :
        /\ j = Len(text) + 1 \/ text[j].ch = "\n"
        /\ \A k \in i..(j - 1) : text[k].ch # "\n"

\* the payload of the entry line that begins at i is the text of one object
PayloadDecodes(text, i) == LineEnd(text, i) = i + 2 /\ text[i + 1].ch = "{}"

\* loadDatabase has run to its end, with or without an error
LoadDone == pc \in {"loaded", "settled"}

\* C9: loadDatabase makes this.records the records decoded from the lines
\* that begin with E, in file order; no other line contributes a record or
\* an error (the load fails only on an E line that does not decode)
C9_LoadKeepsEntryLines ==
    (LoadDone /\ fileText # NoFile) =>
        LET starts == EntryStarts(fileText)
            loaded == pc = "loaded" \/ outcome.err # "SyntaxError"
        IN /\ loaded <=> \A i \in starts : PayloadDecodes(fileText, i)
           /\ loaded =>
                 /\ Len(records) = Cardinality(starts)
                 /\ \A i \in starts :
                        LET at == Cardinality({j \in starts : j <= i})
                        IN records[at] = JsonParse(<<fileText[i + 1]>>, at)

\* the scenario file has been loaded as the records 1 and 2, the D line
\* between them skipped
C9_Witness ==
    /\ pc = "loaded"
    /\ fileText = ScenarioFile
    /\ Len(records) = 2
    /\ OwnValue(records[1], "_id") = Num(1) /\ OwnValue(records[2], "_id") = Num(2)

(***************************************************************************)
(* Specification of the queries with an operator the registry lacks.       *)
(***************************************************************************)
\* operators of the registry and others, some of them names that the
\* operator tables inherit from Object.prototype
OperatorNames ==
    {"$eq", "$ne", "$regex", "toString", "constructor", "valueOf", "isPrototypeOf"}

OperatorQueries ==
    {FieldDoc("a", op, Num(1)) : op \in OperatorNames}
    \cup {<<Entry(setOp, <<FieldDoc("a", op, Num(1))>>)>> :
             setOp \in setOperations, op \in OperatorNames}
    \cup {<<Entry(setOp, <<FieldDoc("a", "$eq", Num(1)), FieldDoc("a", op, Num(1))>>)>> :
             setOp \in setOperations, op \in OperatorNames}

InitOperator ==
    Construct({FileOf(c) : c \in EqCollections}, {<<>>}, OperatorQueries, {NoOptions})

SpecOperator == InitOperator /\ [][Next]_vars

\* the field sub-queries of the query: its own entries in per-field mode,
\* the entries of the inner documents of a set query
SubQueriesOf(q) ==
    IF q[1].key \in setOperations THEN FlattenEntries(q[1].value) ELSE q

\* C10: a query with a field sub-query whose operator is not $eq, $gt, $lt
\* or $in fails with the error 'unhandled query operator', at the top level
\* (the field being one of the schema) and inside a $and/$or
C10_UnknownOperatorIsAnError ==
    (/\ Settled /\ records # <<>>
     /\ query[1].key \in setOperations \/ query[1].key \in OwnKeys(records[1])
     /\ \E i \in 1..Len(SubQueriesOf(query)) :
            FirstKey(SubQueriesOf(query)[i].value) \notin simpleOperations) =>
        outcome = Err("unhandled query operator")

(***************************************************************************)
(* Specification of the calls over a file with an entry line that does not *)
(* decode, for queries of every kind.                                      *)
(***************************************************************************)
\* a malformed entry line between two entry lines that decode
MalformedFile ==
    <<Ch("E"), Json(<<Entry("_id", Num(1))>>), LineFeed,
      Ch("E"), Ch("{"), LineFeed,
      Ch("E"), Json(<<Entry("_id", Num(2))>>)>>

DecodeFiles == FileTexts \cup {MalformedFile}

DecodeQueries ==
    {<<>>,
     FieldDoc("_id", "$gt", Num(0)),
     <<Entry("$text", Str(<<"a">>))>>,
     <<Entry("$or", <<FieldDoc("_id", "$eq", Num(1))>>)>>}

DecodeOptions == {NoOptions, SortBy(<<Entry("_id", -1)>>)}

InitDecode == Construct(DecodeFiles, {<<>>}, DecodeQueries, DecodeOptions)

SpecDecode == InitDecode /\ [][Next]_vars

\* some line of the text begins with E and its payload does not decode
HasMalformedEntry(text) == \E i \in EntryStarts(text) : ~PayloadDecodes(text, i)

\* C11: when an entry line of the file fails to decode, the call fails with
\* the decode error and returns no record, whatever the query and the lines
\* before and after the malformed one
C11_DecodeErrorFailsCall ==
    (Settled /\ HasMalformedEntry(fileText)) =>
        /\ ~outcome.ok
        /\ outcome.err = "SyntaxError"
        /\ outcome.rows = <<>>
        /\ records = <<>>

\* the call over the file with a malformed line between two good ones has
\* failed with the decode error
C11_Witness ==
    /\ Settled
    /\ fileText = MalformedFile
    /\ query # <<>>
    /\ outcome = Err("SyntaxError")

(***************************************************************************)
(* Specification of the calls on an object of the class of part_000, for   *)
(* queries of every kind.                                                  *)
(***************************************************************************)
Collections000 == Collections(RecordsOver(SmallIds, <<"a">>, NumValues), 2)

Queries000 ==
    {<<>>,
     FieldDoc("a", "$gt", Num(1)) \o FieldDoc("_id", "$gt", Num(1)),
     <<Entry("$text", Str(<<"2">>))>>}
    \cup {FieldDoc(f, op, v) : f \in {"a", "b"},
                               op \in {"$eq", "$gt", "$in", "$ne", "toString"},
                               v \in {Num(1), Arr(<<Num(1)>>)}}
    \cup {<<Entry(setOp, <<FieldDoc("a", op, Num(1)), FieldDoc("_id", "$gt", Num(1))>>)>> :
             setOp \in setOperations, op \in {"$eq", "$in"}}

Init000 ==
    Constructed({"part_000"}, {FileOf(c) : c \in Collections000}, {<<"a">>},
                Queries000, {NoOptions})

Spec000 == Init000 /\ [][Next000]_vars

(***************************************************************************)
(* The bytes of a text: every character of it is one byte of the file (the *)
(* characters of the model are ASCII).                                     *)
(***************************************************************************)
\* the size of a file with the text
RECURSIVE Bytes(_)
Bytes(text) ==
    IF text = <<>> THEN 0
    ELSE (IF Head(text).ch = "{}" THEN Len(JsonText(Head(text).doc)) ELSE 1)
             + Bytes(Tail(text))

Min(a, b) == IF a < b THEN a ELSE b

Max(a, b) == IF a < b THEN b ELSE a

\* the bytes first..last of the characters cs, as a text
Text(cs, first, last) == [i \in 1..(last + 1 - first) |-> Ch(cs[first + i - 1])]

\* what a request for `length` bytes at the read position returns: the bytes
\* the file has from there on, as many as asked for or as there are.  A
\* "{}" that is returned whole stays written so; one that the request cuts
\* gives the characters of its part
RECURSIVE Slice(_, _, _)
SliceAt(text, position, length, size) ==
    IF position >= size THEN Slice(Tail(text), position - size, length)
    ELSE IF position = 0 /\ size <= length
    THEN <<Head(text)>> \o Slice(Tail(text), 0, length - size)
    ELSE Text(Chars(<<Head(text)>>), position + 1, Min(size, position + length))
             \o Slice(Tail(text), 0, position + length - size)

Slice(text, position, length) ==
    IF text = <<>> \/ length <= 0 THEN <<>>
    ELSE SliceAt(text, position, length, Bytes(<<Head(text)>>))

(***************************************************************************)
(* Overlapping calls on one Database object: calls of find, and calls of   *)
(* loadDatabase made by the program itself.  Each call suspends at         *)
(* fs.readFile, which is done outside the JavaScript thread in requests:   *)
(* the file is opened, the size of the open file is taken, and its bytes   *)
(* are read from the read position on, in one request or in several; then  *)
(* it is closed.  Every request after the open is served by the file that  *)
(* was opened: rewritten in place it gives the new bytes, removed or       *)
(* replaced under its name it still gives its own.  The completion of the  *)
(* read is delivered as a task of the event loop, which settles the        *)
(* promise of readFile.  The continuation of loadDatabase and then the     *)
(* continuation of find are promise jobs: they run from the microtask      *)
(* queue, first in first out, and the event loop delivers the next         *)
(* completion only when that queue is empty.  Others can rewrite, empty,   *)
(* remove or replace the file at any moment, also between two requests of  *)
(* one read.                                                               *)
(*   a call's pc: "opening"  suspended, the file not yet opened            *)
(*                "opened"   the file is open, its size not yet taken      *)
(*                "reading"  the size is taken, bytes are still asked for  *)
(*                "read"     the read has its text or its error, the       *)
(*                           completion is not yet delivered               *)
(*                "loading"  the continuation of loadDatabase is queued    *)
(*                "loaded"   this.records is assigned, the continuation of *)
(*                           find is queued                                *)
(*                "settled"  the promise of the call is settled, the       *)
(*                           continuation of its caller is queued          *)
(*   a call's fd: the file its read has open: still the file of the name   *)
(*                (linked), or a file removed or replaced under the name,  *)
(*                with the text it keeps                                   *)
(***************************************************************************)
OverlapFiles ==
    {FileOf(<<<<Entry("_id", Num(12))>>, <<Entry("_id", Num(1))>>>>),
     <<>>,
     NoFile}

\* a text of the file while it is being written: the bytes written so far,
\* which end within the number 34
PartFiles == {Slice(FileOf(<<<<Entry("_id", Num(34))>>>>), 0, 9)}

\* the calls of find made: the query and the options of each
OverlapCalls ==
    {[query |-> FieldDoc("_id", "$gt", Num(0)),
      options |-> SortBy(<<Entry("_id", 1)>>)]}

\* find(query, options) is called: it calls loadDatabase, which calls
\* fs.readFile and suspends
CallFind ==
    /\ \E args \in OverlapCalls :
          Called([method |-> "find", query |-> args.query, options |-> args.options,
                  pc |-> "opening", fd |-> Closed, size |-> 0,
                  dbContents |-> <<>>, outcome |-> Pending])
    /\ UNCHANGED <<fileText, fullTextSearchFieldNames, class, records, microtasks>>
    /\ UNCHANGED singleCallVars

(***************************************************************************)
(* The requests of fs.readFile(filename, "utf8").                          *)
(***************************************************************************)
\* the most bytes one request asks for: of a file whose size is known, and
\* of a file whose size reads as 0
kReadFileBufferLength == 512 * 1024

kReadFileUnknownBufferLength == 64 * 1024

\* the text of the file call c has open
Contents(c) == IF c.fd.linked THEN fileText ELSE c.fd.text

\* the read of call c opens the file; with no file the read fails
OpenFile(c) ==
    /\ c.pc = "opening"
    /\ calls' = IF fileText = NoFile
                THEN Moved(c, [c EXCEPT !.pc = "read", !.dbContents = NoFile])
                ELSE Moved(c, [c EXCEPT !.pc = "opened",
                                        !.fd = [linked |-> TRUE, text |-> <<>>]])
    /\ UNCHANGED <<fileText, fullTextSearchFieldNames, class, records, microtasks>>
    /\ UNCHANGED singleCallVars

\* the read of call c takes the size the open file has now
StatFile(c) ==
    /\ c.pc = "opened"
    /\ calls' = Moved(c, [c EXCEPT !.pc = "reading", !.size = Bytes(Contents(c))])
    /\ UNCHANGED <<fileText, fullTextSearchFieldNames, class, records, microtasks>>
    /\ UNCHANGED singleCallVars

\* how many bytes the next request asks for, totalRead bytes being read.
\* The size being 0, the most of a request of unknown size.  Else versions
\* of Node differ: the size up to the most of one request, every time (the
\* requests before were all full), or what is left of the size up to the
\* most of one request
RequestLengths(size, totalRead) ==
    IF size = 0 THEN {kReadFileUnknownBufferLength}
    ELSE {n \in {Min(size, kReadFileBufferLength)} :
             totalRead % Min(size, kReadFileBufferLength) = 0}
         \cup {n \in {Min(size - totalRead, kReadFileBufferLength)} : n > 0}

\* whether the read ends after a request for `length` bytes that returned
\* bytesRead of them, totalRead with those before: it ends at the end of
\* the file (no byte returned) and when the size is read; after fewer bytes
\* than asked for, the size being known, it ends (one version of Node) or
\* asks for the rest (another); else it goes on
ReadEnds(bytesRead, length, totalRead, size) ==
    IF bytesRead = 0 \/ totalRead = size THEN {TRUE}
    ELSE IF bytesRead # length /\ size # 0 /\ totalRead < size THEN {TRUE, FALSE}
    ELSE IF bytesRead # length /\ size # 0 THEN {TRUE}
    ELSE {FALSE}

\* the call c after a request that brought the text so far to `text`
AfterRequest(c, text, ends) ==
    IF ends
    THEN [c EXCEPT !.pc = "read", !.fd = Closed, !.size = 0,
                   !.dbContents = text]
    ELSE [c EXCEPT !.dbContents = text]

\* the request of call c for `length` bytes has returned the bytes `piece`
Requested(c, length, piece) ==
    \E ends \in ReadEnds(Bytes(piece), length,
                         Bytes(c.dbContents) + Bytes(piece), c.size) :
        calls' = Moved(c, AfterRequest(c, c.dbContents \o piece, ends))

\* one request of the read of call c: the bytes the open file has now at
\* the read position, as many as asked for or as there are, follow the
\* bytes read before
ReadFile(c) ==
    /\ c.pc = "reading"
    /\ \E length \in RequestLengths(c.size, Bytes(c.dbContents)) :
          Requested(c, length, Slice(Contents(c), Bytes(c.dbContents), length))
    /\ UNCHANGED <<fileText, fullTextSearchFieldNames, class, records, microtasks>>
    /\ UNCHANGED singleCallVars

\* the calls when the file of the name is no longer the file it was: the
\* reads that have it open keep it, with the text it has
Unlinked ==
    BagOfAll(LAMBDA c : IF c.fd.linked
                        THEN [c EXCEPT !.fd = [linked |-> FALSE, text |-> fileText]]
                        ELSE c,
             calls)

\* the file is rewritten in place, in whole or so far in part, or emptied
\* (as the first step of a rewrite in place is), or made when there is none
WriteFile ==
    /\ \E text \in (OverlapFiles \cup PartFiles) \ {fileText, NoFile} :
          fileText' = text
    /\ UNCHANGED <<fullTextSearchFieldNames, class, records, calls, microtasks>>
    /\ UNCHANGED singleCallVars

\* the file is removed
RemoveFile ==
    /\ fileText # NoFile
    /\ fileText' = NoFile
    /\ calls' = Unlinked
    /\ UNCHANGED <<fullTextSearchFieldNames, class, records, microtasks>>
    /\ UNCHANGED singleCallVars

\* another file is renamed to the name
ReplaceFile ==
    /\ fileText # NoFile
    /\ \E text \in OverlapFiles \ {NoFile} : fileText' = text
    /\ calls' = Unlinked
    /\ UNCHANGED <<fullTextSearchFieldNames, class, records, microtasks>>
    /\ UNCHANGED singleCallVars

\* a completion delivered whatever the microtask queue holds
CallbackReady_Anytime(queue) == TRUE

\* the event loop delivers a completion only between tasks, when every
\* promise job of the task before has run
CallbackReady(queue) == queue = <<>>

\* the file is closed and the completion of the read of call c is
\* delivered: the promise of readFile is settled and the continuation of
\* loadDatabase is queued
ReadDone(c) ==
    /\ c.pc = "read"
    /\ CallbackReady(microtasks)
    /\ calls' = calls (-) SetToBag({c})
    /\ microtasks' = Append(microtasks, Job([c EXCEPT !.pc = "loading"], "loadDatabase"))
    /\ UNCHANGED <<fileText, fullTextSearchFieldNames, class, records>>
    /\ UNCHANGED singleCallVars

\* the promise of call c is settled with outcome `r`: the continuation of
\* the caller, which awaits it, is queued after the jobs `queue`
SettledWith(queue, c, r) ==
    Append(queue, Job([c EXCEPT !.pc = "settled", !.outcome = r], "caller"))

\* the continuation of loadDatabase: the text is decoded and this.records
\* is replaced, which queues the continuation of find or, in a call of
\* loadDatabase itself, resolves its promise; or the read has failed or
\* JSON.parse throws, and the call is rejected
RunLoadDatabase ==
    /\ microtasks # <<>>
    /\ Head(microtasks).job = "loadDatabase"
    /\ LET c == Head(microtasks).call
           data == loadDatabase(c.dbContents)
       IN IF data.ok /\ c.method = "find"
          THEN /\ records' = data.rows
               /\ microtasks' = Append(Tail(microtasks),
                                       Job([c EXCEPT !.pc = "loaded"], "find"))
          ELSE /\ records' = IF data.ok THEN data.rows ELSE records
               /\ microtasks' = SettledWith(Tail(microtasks), c,
                                            IF data.ok THEN Void ELSE data)
    /\ UNCHANGED <<fileText, fullTextSearchFieldNames, class, calls>>
    /\ UNCHANGED singleCallVars

\* the promise of call c settles with what find returned or threw
SettleCall(c, r) ==
    /\ microtasks' = SettledWith(Tail(microtasks), c, r.outcome)
    /\ records' = r.records

\* the continuation of find of part_001, over this.records as it is now
RunFind ==
    /\ microtasks # <<>>
    /\ Head(microtasks).job = "find"
    /\ class = "part_001"
    /\ SettleCall(Head(microtasks).call,
                  find(records, fullTextSearchFieldNames,
                       Head(microtasks).call.query,
                       Head(microtasks).call.options))
    /\ UNCHANGED <<fileText, fullTextSearchFieldNames, class, calls>>
    /\ UNCHANGED singleCallVars

\* the continuation of the caller of a settled call: it has the outcome
RunCaller ==
    /\ microtasks # <<>>
    /\ Head(microtasks).job = "caller"
    /\ microtasks' = Tail(microtasks)
    /\ UNCHANGED <<fileText, fullTextSearchFieldNames, class, records, calls>>
    /\ UNCHANGED singleCallVars

NextOverlapping ==
    \/ CallFind
    \/ CallLoadDatabase
    \/ \E c \in BagToSet(calls) : OpenFile(c)
    \/ \E c \in BagToSet(calls) : StatFile(c)
    \/ \E c \in BagToSet(calls) : ReadFile(c)
    \/ WriteFile
    \/ RemoveFile
    \/ ReplaceFile
    \/ \E c \in BagToSet(calls) : ReadDone(c)
    \/ RunLoadDatabase
    \/ RunFind
    \/ RunCaller

\* an object of the class of part_001, no call made yet
InitOverlapping ==
    /\ Construct(OverlapFiles, {<<>>}, {<<>>}, {NoOptions})
    /\ class = "part_001"

SpecOverlapping == InitOverlapping /\ [][NextOverlapping]_vars

\* what the call settles with when it is evaluated over what its own read
\* returned
OwnOutcome(call) ==
    LET data == loadDatabase(call.dbContents)
    IN IF ~data.ok THEN data
       ELSE IF call.method = "loadDatabase" THEN Void
       ELSE IF class = "part_001"
            THEN find(data.rows, fullTextSearchFieldNames, call.query,
                      call.options).outcome
            ELSE find13(data.rows, fullTextSearchFieldNames, call.query)

\* C12: with several calls in flight on one object and the file changing
\* between and during their reads, a call of find whose continuation is
\* about to run finds in this.records the collection of its own load, and
\* every call settles with the result of its query over the text its own
\* read returned
C12_EachCallUsesItsOwnLoad ==
    \A c \in AllCalls :
        /\ c.pc = "loaded" => records = loadDatabase(c.dbContents).rows
        /\ c.pc = "settled" => c.outcome = OwnOutcome(c)

\* three calls are in flight: two calls of find whose reads have returned
\* different texts, of different, non-empty collections - the load of the
\* one has replaced this.records and its continuation is the next job, the
\* completion of the read of the other, which returned a text the file
\* never had (the file changed between the requests of the read), is still
\* to be delivered - and a call that has the file open
C12_Witness ==
    /\ microtasks # <<>>
    /\ Head(microtasks).job = "find"
    /\ records # <<>>
    /\ records = loadDatabase(Head(microtasks).call.dbContents).rows
    /\ \E c \in BagToSet(calls) :
          /\ c.method = "find"
          /\ c.pc = "read"
          /\ \A text \in (OverlapFiles \cup PartFiles) \ {NoFile} :
                 Chars(c.dbContents) # Chars(text)
          /\ loadDatabase(c.dbContents).ok
          /\ loadDatabase(c.dbContents).rows # <<>>
          /\ loadDatabase(c.dbContents).rows # records
    /\ \E c \in BagToSet(calls) : c.pc \in {"opened", "reading"}

(***************************************************************************)
(* Specification of the calls with two sort keys, over collections whose   *)
(* record i has the _id i, the field b and, or not, the field a.           *)
(***************************************************************************)
MultiSortRecords(i) ==
    {r \in RecordsOver({Num(i)}, <<"a", "b">>, NumValues) : "b" \in OwnKeys(r)}

\* the collections of n records
RECURSIVE MultiSortCollectionsOf(_)
MultiSortCollectionsOf(n) ==
    IF n = 0 THEN {<<>>}
    ELSE {Append(c, r) : c \in MultiSortCollectionsOf(n - 1), r \in MultiSortRecords(n)}

MultiSortCollections == UNION {MultiSortCollectionsOf(n) : n \in 0..MaxRecords}

MultiSortOptions ==
    {SortBy(<<Entry(f, d), Entry(g, e)>>) :
        f \in {"a", "b"}, g \in {"a", "b"}, d \in {1, -1}, e \in {1, -1}}

InitMultiSort ==
    Construct({FileOf(c) : c \in MultiSortCollections}, {<<>>}, {<<>>},
              {o \in MultiSortOptions : o.sort[1].key # o.sort[2].key})

SpecMultiSort == InitMultiSort /\ [][Next]_vars

\* the position of the record x in seq, where it occurs once
Position(seq, x) == CHOOSE i \in 1..Len(seq) : seq[i] = x

\* C13: with two sort keys, find returns the records of the unsorted result
\* ordered, per its direction, by the last listed key, and the records with
\* the same value of the last key are in the relative order that the pass
\* on the first key gave them
C13_LastKeyDominates ==
    (Settled /\ class = "part_001" /\ options.hasSort /\ Len(options.sort) = 2) =>
        LET field == options.sort[2].key
            direction == options.sort[2].value
            unsorted == find(loadDatabase(fileText).rows, fullTextSearchFieldNames,
                             query, NoOptions).outcome.rows
            earlier == ArraySort(unsorted, options.sort[1].key, options.sort[1].value)
            rows == outcome.rows
            val(r) == GetProperty(r, field)
        IN /\ outcome.ok
           /\ Len(rows) = Len(unsorted)
           /\ \A r \in Range(unsorted) : Count(rows, r) = Count(unsorted, r)
           /\ \A i, j \in 1..Len(rows) :
                  i < j => /\ IF direction = 1
                              THEN ~JsLess(val(rows[j]), val(rows[i]))
                              ELSE ~JsLess(val(rows[i]), val(rows[j]))
                           /\ val(rows[i]) = val(rows[j]) =>
                                  Position(earlier, rows[i]) < Position(earlier, rows[j])
====
